---------------------------- MODULE Spec2Model ----------------------------
(***************************************************************************)
(* A model of the session / cache / retry core of the metadata-quality     *)
(* backend:                                                                *)
(*   - QueryResultCache   (backend/app/services/cache.py)                  *)
(*   - SnowflakeSession, SessionManager (backend/app/services/session.py)  *)
(*   - MdlhSessionContext.execute_query (backend/app/routers/mdlh.py)      *)
(*   - MetadataCache         (backend/app/services/cache.py)               *)
(*   - require_mdlh_connection (backend/app/routers/mdlh.py)               *)
(*   - identifier validation (backend/app/services/snowflake.py)           *)
(* Text (query text, error messages) is a sequence of one-character        *)
(* strings, so that concatenation, lower-casing and substring search are   *)
(* computed the way the Python code computes them.  Time is a natural      *)
(* number of clock units read through the variable now (datetime.utcnow).  *)
(***************************************************************************)
EXTENDS Integers, Sequences, FiniteSets, TLC

VARIABLES
    now,          \* the wall clock, datetime.utcnow()
    qc_cache,     \* QueryResultCache._cache: the OrderedDict, oldest first
    qc_maxsize,   \* QueryResultCache._maxsize
    qc_hits,      \* QueryResultCache._hits
    qc_misses,    \* QueryResultCache._misses
    qc_ret,       \* the last cache call: its arguments and what it returned
    qc_written,   \* history: per (query, params), the rows it stored last
    qc_pure,      \* history: only inserts of new keys and get hits so far
    qc_recency,   \* history: the keys touched so far, least recent first
    qc_victim,    \* history: the least recently touched key at overflow
    sm_created,   \* the number of sessions created so far (ids 1..sm_created)
    sm_sess,      \* the SnowflakeSession objects, by id
    sm_sessions,  \* SessionManager._sessions: the registered ids
    sm_running,   \* SessionManager._running
    sm_sweep,     \* where the cleanup thread is in _cleanup_loop
    sm_ret,       \* the manager call made by the last step, if any
    sm_removed,   \* history: the ids for which remove_session returned True
    ex_session,   \* is_expired study: one SnowflakeSession
    ex_now,       \* is_expired study: the clock, in minutes
    ex_max_idle,  \* is_expired study: the max_idle_minutes argument
    ex_ret,       \* is_expired study: the call made by the last step, if any
    eq_pc,        \* execute_query: where the call is
    eq_query,     \* execute_query: the query argument
    eq_warehouse, \* execute_query: self.session.warehouse
    eq_attempt,   \* execute_query: the loop variable attempt
    eq_last_error,\* execute_query: last_error, the text of the exception
    eq_executed,  \* execute_query: the text the last attempt executed
    eq_result,    \* execute_query: the rows returned or the error raised
    eq_resume_ok, \* execute_query: what the last _resume_warehouse returned
    eq_verify_ok, \* execute_query: what the last _verify_connection returned
    eq_cursors,   \* execute_query: the cursors of the attempts, open or closed
    eq_session,   \* MdlhSessionContext.session: the session the queries run on
    eq_helper_open, \* the cursors _resume_warehouse / _verify_connection left open
    eq_attempts,  \* history: the query attempts of this call
    eq_resumes,   \* history: the resume commands issued by this call
    eq_probes,    \* history: the liveness probes issued by this call
    mc_databases, \* MetadataCache._databases, by account
    mc_schemas,   \* MetadataCache._schemas, by account/database
    mc_tables,    \* MetadataCache._tables, by account/database/schema
    mc_columns,   \* MetadataCache._columns, by account/database/schema/table
    mc_sets,      \* history: the number of set_X calls so far
    mc_ret,       \* the metadata-cache call made by the last step, if any
    id_name,      \* identifier validation: the raw name
    id_ret,       \* identifier validation: the call made by the last step
    lk_lock,      \* SessionManager._lock: the thread that holds it, if any
    lk_pc,        \* per thread: where it is in its manager call
    lk_local,     \* per thread: the locals of its manager call
    lk_ret,       \* the manager call that returned in the last step, if any
    lk_sess,      \* the SnowflakeSession objects, by id
    lk_sessions,  \* SessionManager._sessions: the registered ids
    lk_running,   \* SessionManager._running
    lk_created,   \* the number of sessions created so far
    ml_lock,      \* MetadataCache._lock: the thread that holds it, if any
    ml_pc,        \* per thread: where it is in its invalidation
    ml_local,     \* per thread: the prefix of its invalidation and the
                  \* entries stored when it started
    rm_pc,        \* removal: where the manager is in _remove_session_unsafe
    rm_path,      \* removal: the manager call that removes
    rm_todo,      \* removal: the ids the call has still to remove
    rm_session,   \* removal: the session popped from the registry, if any
    rm_refs,      \* removal: the sessions a request holds a reference to
    rm_inflight,  \* removal: the sessions an execute_query is running on
    ft_pc,        \* metadata fetch: where the operation is
    ft_call,      \* metadata fetch: the operation and its arguments
    ft_partial,   \* metadata fetch: what the operation has fetched so far
    ft_result,    \* metadata fetch: what the operation returned or raised
    ft_gave_up,   \* metadata fetch: a query of the operation has failed
    ft_reads,     \* metadata fetch: the cache lookups the operation has made
    ft_queries,   \* metadata fetch: the queries the operation has run
    ft_stale,     \* metadata fetch: an invalidation returned while the
                  \* operation held fetched data it had still to store
    rl_attempts,  \* RateLimiter._attempts: per client IP, the recorded times
    rl_pc,        \* per thread: where it is in is_allowed
    rl_local,     \* per thread: client_ip and the local now of its call
    rl_ret,       \* the is_allowed call that returned in the last step, if any
    rl_log,       \* the calls that returned allowed: IP, the clock the call
                  \* read and the time of its return
    rl_calls      \* the number of is_allowed calls made so far

cacheVars == <<qc_cache, qc_maxsize, qc_hits, qc_misses, qc_ret, qc_written, qc_pure,
               qc_recency, qc_victim>>

sessionVars == <<sm_created, sm_sess, sm_sessions, sm_running, sm_sweep, sm_ret,
                 sm_removed>>

expiryVars == <<ex_session, ex_now, ex_max_idle, ex_ret>>

execVars == <<eq_pc, eq_query, eq_warehouse, eq_attempt, eq_last_error,
              eq_executed, eq_result, eq_resume_ok, eq_verify_ok, eq_cursors,
              eq_helper_open, eq_attempts, eq_resumes, eq_probes, eq_session>>

metaVars == <<mc_databases, mc_schemas, mc_tables, mc_columns, mc_sets, mc_ret>>

identVars == <<id_name, id_ret>>

lockVars == <<lk_lock, lk_pc, lk_local, lk_ret, lk_sess, lk_sessions, lk_running,
              lk_created>>

metaLockVars == <<ml_lock, ml_pc, ml_local>>

removalVars == <<rm_pc, rm_path, rm_todo, rm_session, rm_refs, rm_inflight>>

fetchVars == <<ft_pc, ft_call, ft_partial, ft_result, ft_gave_up, ft_reads,
               ft_queries, ft_stale>>

limiterVars == <<rl_attempts, rl_pc, rl_local, rl_ret, rl_log, rl_calls>>

vars == <<now, cacheVars, sessionVars, expiryVars, execVars, metaVars, identVars,
          lockVars,
          metaLockVars,
          removalVars,
          fetchVars,
          limiterVars>>

\* What the steps of one component leave alone.
cacheFrame ==
    UNCHANGED <<sessionVars, expiryVars, execVars, metaVars, identVars, lockVars,
                metaLockVars,
                removalVars,
                fetchVars,
                limiterVars>>
sessionFrame ==
    UNCHANGED <<cacheVars, expiryVars, execVars, metaVars, identVars, lockVars,
                metaLockVars,
                removalVars,
                fetchVars,
                limiterVars>>
expiryFrame ==
    UNCHANGED <<now, cacheVars, sessionVars, execVars, metaVars, identVars, lockVars,
                metaLockVars,
                removalVars,
                fetchVars,
                limiterVars>>
execFrame ==
    UNCHANGED <<now, cacheVars, sessionVars, expiryVars, metaVars, identVars, lockVars,
                metaLockVars,
                removalVars,
                fetchVars,
                limiterVars>>
metaFrame ==
    UNCHANGED <<cacheVars, sessionVars, expiryVars, execVars, identVars, lockVars,
                metaLockVars,
                removalVars,
                fetchVars,
                limiterVars>>
identFrame ==
    UNCHANGED <<now, cacheVars, sessionVars, expiryVars, execVars, metaVars, lockVars,
                metaLockVars,
                removalVars,
                fetchVars,
                limiterVars>>
lockFrame ==
    UNCHANGED <<cacheVars, sessionVars, expiryVars, execVars, metaVars, identVars,
                metaLockVars,
                removalVars,
                fetchVars,
                limiterVars>>

---------------------------------------------------------------------------
(* Bounds of the model.                                                    *)

\* The clock runs from 0 to MaxTime.
MaxTime == 2
\* QueryResultCache(maxsize=...): the capacity of the modelled instance.
MaxSize == 2
\* QueryResultCache(ttl_seconds=...): the TTL of the modelled instance,
\* in clock units.
Ttl == 1
\* The cache is followed for MaxCount get calls (hits plus misses).
MaxCount == 2
\* At most MaxSessions sessions are created.
MaxSessions == 2
\* SessionManager(max_idle_minutes=...): the idle limit of the modelled
\* manager, in clock units.
MaxIdle == 1
\* A session's query_count is followed up to MaxQueryCount.
MaxQueryCount == 2
\* The is_expired study follows the clock for MaxMinutes minutes.
MaxMinutes == 32
\* MetadataCache(ttl_databases=..., ttl_schemas=..., ttl_tables=...,
\* ttl_columns=...): the TTLs of the modelled instance, in clock units.
TtlDatabases == 1
TtlSchemas == 1
TtlTables == 0
TtlColumns == 0
\* The metadata cache is followed for MaxMetaSets set_X calls.
MaxMetaSets == 2
\* Raw identifiers have at most MaxIdentLen characters.
MaxIdentLen == 3
\* RateLimiter(max_attempts=..., window_seconds=...): the limits of the
\* modelled instance, the window in clock units.
MaxAttempts == 2
WindowSeconds == 2
\* The limiter is followed for MaxLimiterCalls calls of is_allowed.
MaxLimiterCalls == 4

---------------------------------------------------------------------------
(* Text.                                                                   *)

\* The text "q1".
TxtQ1 == <<"q", "1">>

UpperLetters ==
    <<"A", "B", "C", "D", "E", "F", "G", "H", "I", "J", "K", "L", "M", "N",
      "O", "P", "Q", "R", "S", "T", "U", "V", "W", "X", "Y", "Z">>
LowerLetters ==
    <<"a", "b", "c", "d", "e", "f", "g", "h", "i", "j", "k", "l", "m", "n",
      "o", "p", "q", "r", "s", "t", "u", "v", "w", "x", "y", "z">>

\* str.lower(), one character
LowerChar(ch) ==
    IF \E i \in 1..Len(UpperLetters) : UpperLetters[i] = ch
    THEN LowerLetters[CHOOSE i \in 1..Len(UpperLetters) : UpperLetters[i] = ch]
    ELSE ch

\* str.lower()
Lower(text) == [i \in 1..Len(text) |-> LowerChar(text[i])]

\* pattern in text
Contains(text, pattern) ==
    \E i \in 1..(Len(text) - Len(pattern) + 1) :
        SubSeq(text, i, i + Len(pattern) - 1) = pattern

\* str[:n]
Take(s, n) == SubSeq(s, 1, IF Len(s) < n THEN Len(s) ELSE n)

---------------------------------------------------------------------------
(* Query parameters: None, or a dict given as its set of <<name, value>>   *)
(* items (names are one-character strings, values are digits).            *)

ParamsNone == [none |-> TRUE, kv |-> {}]
ParamsDict(items) == [none |-> FALSE, kv |-> items]

\* Python truthiness of params: None and the empty dict are falsy.
Truthy(params) == ~params.none /\ params.kv # {}

\* The parameter names, in sorted order (sort_keys=True).
NameOrder == <<"a", "b">>
DigitText == <<"0", "1", "2", "3", "4", "5", "6", "7", "8", "9">>

\* json.dumps of one item: "name": value
JsonItem(item) == <<"\"", item[1], "\"", ":", " ", DigitText[item[2] + 1]>>

RECURSIVE JsonItems(_, _)
\* The items of kv whose names are NameOrder[i..], joined by ", ".
JsonItems(kv, i) ==
    IF i > Len(NameOrder) THEN <<>>
    ELSE LET here == {it \in kv : it[1] = NameOrder[i]}
             rest == JsonItems(kv, i + 1)
         IN  IF here = {} THEN rest
             ELSE LET it == CHOOSE x \in here : TRUE
                  IN  JsonItem(it) \o (IF rest = <<>> THEN <<>> ELSE <<",", " ">> \o rest)

\* json.dumps(params, sort_keys=True, default=str)
JsonDumps(params) == <<"{">> \o JsonItems(params.kv, 1) \o <<"}">>

\* hashlib.sha256(key_data.encode()).hexdigest()[:16].  The digest is an
\* opaque tag of the hashed text: distinct texts get distinct tags (the
\* 64-bit truncation's collisions are outside the model).
Sha256Hex16(text) == <<"sha256">> \o text

\* QueryResultCache._make_key
MakeKey(query, params) ==
    Sha256Hex16(IF Truthy(params) THEN query \o JsonDumps(params) ELSE query)

---------------------------------------------------------------------------
(* The inputs of the cache calls.                                          *)

ParamsA1 == ParamsDict({<<"a", 1>>})
ParamsSet == {ParamsNone, ParamsA1}
\* Query texts; one of them ends with the text of json.dumps({"a": 1}).
Queries == {TxtQ1, TxtQ1 \o JsonDumps(ParamsA1)}
Rows == {"rowsA", "rowsB"}
Pairs == Queries \X ParamsSet
PairKey(p) == MakeKey(p[1], p[2])

Miss == "miss"
QueryDebugLen == 100

---------------------------------------------------------------------------
(* QueryResultCache.                                                       *)

Keys(c) == {c[i].key : i \in 1..Len(c)}

\* The position of key in the OrderedDict, 0 when absent.
KeyIndex(c, key) ==
    IF key \in Keys(c) THEN CHOOSE i \in 1..Len(c) : c[i].key = key ELSE 0

\* del d[key]
Delete(c, key) ==
    LET i == KeyIndex(c, key)
    IN  IF i = 0 THEN c ELSE SubSeq(c, 1, i - 1) \o SubSeq(c, i + 1, Len(c))

\* OrderedDict.move_to_end(key)
MoveToEnd(c, key) ==
    LET i == KeyIndex(c, key) IN IF i = 0 THEN c ELSE Append(Delete(c, key), c[i])

\* d[key] = entry: an existing key keeps its position, a new key goes last.
Store(c, entry) ==
    LET i == KeyIndex(c, entry.key)
    IN  IF i = 0 THEN Append(c, entry) ELSE [c EXCEPT ![i] = entry]

\* An entry counted as expired from the instant its age reaches the TTL.
TtlExpiredInclusive(cached_at, t, ttl) == t - cached_at >= ttl

\* datetime.utcnow() - entry["cached_at"] > self._ttl
TtlExpired(cached_at, t, ttl) == t - cached_at > ttl

\* A set that stores without making room.
EvictToFitNever(c, maxsize) == c

RECURSIVE EvictToFit(_, _)
\* while len(self._cache) >= self._maxsize: self._cache.popitem(last=False)
EvictToFit(c, maxsize) ==
    IF Len(c) >= maxsize /\ Len(c) > 0 THEN EvictToFit(Tail(c), maxsize) ELSE c

\* The cache after set(query, params, data) at time t.
SetResult(c, query, params, data, t) ==
    Store(EvictToFit(c, qc_maxsize),
          [key |-> MakeKey(query, params), data |-> data, cached_at |-> t,
           query |-> Take(query, QueryDebugLen)])

\* A get that leaves the order of the entries alone on a hit.
GetResultNoTouch(c, query, params, t) ==
    LET key == MakeKey(query, params)
        i == KeyIndex(c, key)
    IN  IF i = 0 THEN c
        ELSE IF TtlExpired(c[i].cached_at, t, Ttl) THEN Delete(c, key)
        ELSE c

\* The cache after get(query, params) at time t.
GetResult(c, query, params, t) ==
    LET key == MakeKey(query, params)
        i == KeyIndex(c, key)
    IN  IF i = 0 THEN c
        ELSE IF TtlExpired(c[i].cached_at, t, Ttl) THEN Delete(c, key)
        ELSE MoveToEnd(c, key)

\* A get that returns whatever is stored, however old.
GetReturnStale(c, query, params, t) ==
    LET i == KeyIndex(c, MakeKey(query, params))
    IN  IF i = 0 THEN Miss ELSE c[i].data

\* What get(query, params) returns at time t.
GetReturn(c, query, params, t) ==
    LET key == MakeKey(query, params)
        i == KeyIndex(c, key)
    IN  IF i = 0 THEN Miss
        ELSE IF TtlExpired(c[i].cached_at, t, Ttl) THEN Miss
        ELSE c[i].data

\* QueryResultCache.get_stats (hit_rate is hits / total, left as the pair)
QcGetStats ==
    [size |-> Len(qc_cache), maxsize |-> qc_maxsize, ttl_seconds |-> Ttl,
     hits |-> qc_hits, misses |-> qc_misses]

(* History kept for the claims -------------------------------------------*)

NoPair == <<>>
NoCall == [op |-> "none", pair |-> NoPair, result |-> Miss, expired |-> FALSE]

\* The pairs whose stored rows survive a step to cache d in which pair p
\* (NoPair for none) stored rows: a pair is forgotten when its key left the
\* cache or when another pair stored under its key.
Surviving(w, d, p) ==
    {x \in DOMAIN w : PairKey(x) \in Keys(d) /\ (p = NoPair \/ PairKey(x) # PairKey(p))}

WrittenAfter(w, d, p, data, t, afterExpiry) ==
    [x \in Surviving(w, d, p) \cup (IF p = NoPair THEN {} ELSE {p}) |->
        IF x = p THEN [rows |-> data, at |-> t, afterExpiry |-> afterExpiry]
        ELSE w[x]]

\* The recency list after key is touched.
Touched(r, key) ==
    LET others == SelectSeq(r, LAMBDA k : k # key) IN Append(others, key)

SeqSet(s) == {s[i] : i \in 1..Len(s)}

(* The calls --------------------------------------------------------------*)

QcGet(query, params) ==
    LET p == <<query, params>>
        key == MakeKey(query, params)
        res == GetReturn(qc_cache, query, params, now)
        hit == res # Miss
    IN  /\ qc_hits + qc_misses < MaxCount
        /\ qc_cache' = GetResult(qc_cache, query, params, now)
        /\ qc_hits' = IF hit THEN qc_hits + 1 ELSE qc_hits
        /\ qc_misses' = IF hit THEN qc_misses ELSE qc_misses + 1
        /\ qc_ret' = [op |-> "get", pair |-> p, result |-> res,
                      expired |-> (key \in Keys(qc_cache) /\ ~hit)]
        /\ qc_written' = qc_written
        /\ qc_pure' = (qc_pure /\ hit)
        /\ qc_recency' = IF qc_pure' THEN Touched(qc_recency, key) ELSE <<>>
        /\ qc_victim' = IF qc_pure' THEN qc_victim ELSE <<>>
        /\ UNCHANGED <<now, qc_maxsize>>
        /\ cacheFrame

QcSet(query, params, data) ==
    LET p == <<query, params>>
        key == MakeKey(query, params)
        fresh == key \notin Keys(qc_cache)
        stillPure == qc_pure /\ fresh /\ Len(qc_recency) <= qc_maxsize
    IN  /\ qc_cache' = SetResult(qc_cache, query, params, data, now)
        /\ qc_ret' = [op |-> "set", pair |-> p, result |-> data, expired |-> FALSE]
        /\ qc_written' = WrittenAfter(qc_written, qc_cache', p, data, now,
                                      qc_ret.op = "get" /\ qc_ret.pair = p /\ qc_ret.expired)
        /\ qc_pure' = stillPure
        /\ qc_recency' = IF stillPure THEN Touched(qc_recency, key) ELSE <<>>
        /\ qc_victim' = IF ~stillPure THEN <<>>
                        ELSE IF Len(qc_recency) = qc_maxsize THEN <<Head(qc_recency)>>
                        ELSE qc_victim
        /\ UNCHANGED <<now, qc_maxsize, qc_hits, qc_misses>>
        /\ cacheFrame

\* invalidate(): clear everything, return the number of entries.
QcInvalidateAll ==
    /\ qc_cache' = <<>>
    /\ qc_ret' = [op |-> "invalidate", pair |-> NoPair, result |-> Len(qc_cache),
                  expired |-> FALSE]
    /\ qc_written' = WrittenAfter(qc_written, qc_cache', NoPair, Miss, now, FALSE)
    /\ qc_pure' = FALSE /\ qc_recency' = <<>> /\ qc_victim' = <<>>
    /\ UNCHANGED <<now, qc_maxsize, qc_hits, qc_misses>>
    /\ cacheFrame

\* invalidate(query, params): remove that entry, return 1 or 0.
QcInvalidate(query, params) ==
    LET key == MakeKey(query, params)
    IN  /\ qc_cache' = Delete(qc_cache, key)
        /\ qc_ret' = [op |-> "invalidate", pair |-> <<query, params>>,
                      result |-> IF key \in Keys(qc_cache) THEN 1 ELSE 0,
                      expired |-> FALSE]
        /\ qc_written' = WrittenAfter(qc_written, qc_cache', NoPair, Miss, now, FALSE)
        /\ qc_pure' = FALSE /\ qc_recency' = <<>> /\ qc_victim' = <<>>
        /\ UNCHANGED <<now, qc_maxsize, qc_hits, qc_misses>>
        /\ cacheFrame

\* Time passes.
Tick ==
    /\ now < MaxTime
    /\ now' = now + 1

QcTick == Tick /\ UNCHANGED cacheVars /\ cacheFrame

\* QueryResultCache(maxsize=MaxSize + 1): a new cache with room for one
\* more entry.
InitCacheWide ==
    /\ qc_cache = <<>>
    /\ qc_maxsize = MaxSize + 1
    /\ qc_hits = 0
    /\ qc_misses = 0
    /\ qc_ret = NoCall
    /\ qc_written = <<>>
    /\ qc_pure = TRUE
    /\ qc_recency = <<>>
    /\ qc_victim = <<>>

\* QueryResultCache(maxsize=MaxSize): a new cache.
InitCache ==
    /\ qc_cache = <<>>
    /\ qc_maxsize = MaxSize
    /\ qc_hits = 0
    /\ qc_misses = 0
    /\ qc_ret = NoCall
    /\ qc_written = <<>>
    /\ qc_pure = TRUE
    /\ qc_recency = <<>>
    /\ qc_victim = <<>>

NextCache ==
    \/ \E q \in Queries, p \in ParamsSet : QcGet(q, p)
    \/ \E q \in Queries, p \in ParamsSet, d \in Rows : QcSet(q, p, d)
    \/ QcInvalidateAll
    \/ \E q \in Queries, p \in ParamsSet : QcInvalidate(q, p)
    \/ QcTick

IdleCache == InitCache

---------------------------------------------------------------------------
(* SnowflakeSession and SessionManager.  A session object is the record    *)
(* [last_used, query_count, conn]; conn is the state of its connection:    *)
(* "live" (a probe succeeds), "dead" (a probe fails) or "closed" (closed   *)
(* by Session.close).  The fields no modelled operation reads (user,       *)
(* account, created_at, ...) are left out.  Session ids are uuid4 values:  *)
(* each create_session draws the next unused id.                           *)

\* An idle test that also expires a session idle for exactly the limit.
IsExpiredInclusive(last_used, t, max_idle) == t - last_used >= max_idle

\* SnowflakeSession.is_expired
IsExpired(last_used, t, max_idle) == t - last_used > max_idle

\* SnowflakeSession.is_alive: SELECT 1 on the connection.
IsAlive(session) == session.conn = "live"

\* SnowflakeSession.touch
Touch(session, t) ==
    [session EXCEPT !.last_used = t, !.query_count = session.query_count + 1]

\* A close that leaves the connection as it is.
CloseKeepsOpen(session) == session

\* SnowflakeSession.close
Close(session) == [session EXCEPT !.conn = "closed"]

\* SnowflakeSession.__init__
NewSession(t) == [last_used |-> t, query_count |-> 0, conn |-> "live"]

SessionIds == 1..MaxSessions
None == 0

\* A pop that leaves the entry in the registry.
PopKeepsEntry(registry, sid) == registry

\* self._sessions.pop(session_id, None): the registry afterwards.
Pop(registry, sid) == registry \ {sid}

\* A removal that reports success whatever it found.
RemoveReturnsAlwaysTrue(registry, sid) == TRUE

\* _remove_session_unsafe: what it returns.
RemoveReturns(registry, sid) == sid \in registry

\* _remove_session_unsafe: the session objects afterwards.
RemoveCloses(sessions, registry, sid) ==
    IF sid \in registry THEN [sessions EXCEPT ![sid] = Close(sessions[sid])]
    ELSE sessions

\* A lookup that skips the liveness probe.
GetSessionBranchNoProbe(sessions, registry, sid, t) ==
    IF sid \notin registry THEN "absent"
    ELSE IF IsExpired(sessions[sid].last_used, t, MaxIdle) THEN "expired"
    ELSE "ok"

\* get_session: the branch it takes.
GetSessionBranch(sessions, registry, sid, t) ==
    IF sid \notin registry THEN "absent"
    ELSE IF IsExpired(sessions[sid].last_used, t, MaxIdle) THEN "expired"
    ELSE IF ~IsAlive(sessions[sid]) THEN "dead"
    ELSE "ok"

\* SessionManager.get_stats()["active_sessions"]
ActiveSessions(registry) == Cardinality(registry)

\* A manager call: result is the session (id) returned, None for absent;
\* removed is what remove_session returned; probed tells whether the call
\* ran the liveness probe.
SmNoCall ==
    [op |-> "none", sid |-> None, result |-> None, removed |-> FALSE, probed |-> FALSE]

\* SessionManager.create_session
SmCreateSession ==
    /\ sm_created < MaxSessions
    /\ sm_created' = sm_created + 1
    /\ sm_sess' = Append(sm_sess, NewSession(now))
    /\ sm_sessions' = sm_sessions \cup {sm_created + 1}
    /\ sm_ret' = [op |-> "create_session", sid |-> sm_created + 1,
                  result |-> sm_created + 1, removed |-> FALSE, probed |-> FALSE]
    /\ UNCHANGED <<now, sm_running, sm_sweep, sm_removed>>
    /\ sessionFrame

\* SessionManager.get_session
SmGetSession(sid) ==
    LET branch == GetSessionBranch(sm_sess, sm_sessions, sid, now)
    IN  /\ branch = "ok" => sm_sess[sid].query_count < MaxQueryCount
        /\ sm_sessions' = IF branch \in {"expired", "dead"} THEN Pop(sm_sessions, sid)
                          ELSE sm_sessions
        /\ sm_sess' = IF branch \in {"expired", "dead"}
                      THEN RemoveCloses(sm_sess, sm_sessions, sid)
                      ELSE IF branch = "ok" THEN [sm_sess EXCEPT ![sid] = Touch(sm_sess[sid], now)]
                      ELSE sm_sess
        /\ sm_ret' = [op |-> "get_session", sid |-> sid,
                      result |-> IF branch = "ok" THEN sid ELSE None,
                      removed |-> FALSE, probed |-> branch \in {"dead", "ok"}]
        /\ UNCHANGED <<now, sm_created, sm_running, sm_sweep, sm_removed>>
        /\ sessionFrame

\* SessionManager.remove_session
SmRemoveSession(sid) ==
    /\ sm_sessions' = Pop(sm_sessions, sid)
    /\ sm_sess' = RemoveCloses(sm_sess, sm_sessions, sid)
    /\ sm_ret' = [op |-> "remove_session", sid |-> sid, result |-> None,
                  removed |-> RemoveReturns(sm_sessions, sid), probed |-> FALSE]
    /\ sm_removed' = IF RemoveReturns(sm_sessions, sid) THEN sm_removed \cup {sid}
                     ELSE sm_removed
    /\ UNCHANGED <<now, sm_created, sm_running, sm_sweep>>
    /\ sessionFrame

\* A scan that also collects the sessions whose connection is dead.
ExpiredOrDeadIds(sessions, registry, t) ==
    {sid \in registry :
        IsExpired(sessions[sid].last_used, t, MaxIdle) \/ ~IsAlive(sessions[sid])}

\* The ids _cleanup_expired collects.
\* A scan that finds no session idle.
ExpiredIdsNone(sessions, registry, t) == {}

ExpiredIds(sessions, registry, t) ==
    {sid \in registry : IsExpired(sessions[sid].last_used, t, MaxIdle)}

\* _cleanup_loop, "while self._running": enter the sleep or leave the loop.
SmSweepCheck ==
    /\ sm_sweep = "check"
    /\ sm_sweep' = IF sm_running THEN "sleep" ELSE "done"
    /\ sm_ret' = SmNoCall
    /\ UNCHANGED <<now, sm_created, sm_sess, sm_sessions, sm_running, sm_removed>>
    /\ sessionFrame

\* _cleanup_loop: the sleep ends and _cleanup_expired runs under the lock.
SmSweepRun ==
    LET expired == ExpiredIds(sm_sess, sm_sessions, now)
    IN  /\ sm_sweep = "sleep"
        /\ sm_sweep' = "check"
        /\ sm_sessions' = sm_sessions \ expired
        /\ sm_sess' = [sid \in DOMAIN sm_sess |->
                          IF sid \in expired THEN Close(sm_sess[sid]) ELSE sm_sess[sid]]
        /\ sm_ret' = [op |-> "sweep", sid |-> None, result |-> None,
                      removed |-> expired # {}, probed |-> FALSE]
        /\ UNCHANGED <<now, sm_created, sm_running, sm_removed>>
        /\ sessionFrame

\* SessionManager.shutdown
SmShutdown ==
    /\ sm_running
    /\ sm_running' = FALSE
    /\ sm_sessions' = {}
    /\ sm_sess' = [sid \in DOMAIN sm_sess |->
                      IF sid \in sm_sessions THEN Close(sm_sess[sid]) ELSE sm_sess[sid]]
    /\ sm_ret' = [op |-> "shutdown", sid |-> None, result |-> None,
                  removed |-> FALSE, probed |-> FALSE]
    /\ UNCHANGED <<now, sm_created, sm_sweep, sm_removed>>
    /\ sessionFrame

\* next(iter(self._sessions.keys())): the dictionary keeps insertion order
\* and ids are handed out in increasing order, so the first key is the
\* smallest registered id.
FirstKey(registry) == CHOOSE sid \in registry : \A other \in registry : sid <= other

\* require_mdlh_connection: the session id it looks up.  header is the
\* X-Session-ID / session_id of the request, None when there is none.
ResolveSessionId(registry, header) ==
    IF header # None THEN header
    ELSE IF registry # {} THEN FirstKey(registry)
    ELSE None

\* require_mdlh_connection (with MDLH enabled): the context of the session
\* get_session returns for the resolved id, or the 503 error (result None).
SmRequireConnection(header) ==
    LET session_id == ResolveSessionId(sm_sessions, header)
        branch == IF session_id = None THEN "absent"
                  ELSE GetSessionBranch(sm_sess, sm_sessions, session_id, now)
    IN  /\ branch = "ok" => sm_sess[session_id].query_count < MaxQueryCount
        /\ sm_sessions' = IF branch \in {"expired", "dead"}
                          THEN Pop(sm_sessions, session_id)
                          ELSE sm_sessions
        /\ sm_sess' = IF branch \in {"expired", "dead"}
                      THEN RemoveCloses(sm_sess, sm_sessions, session_id)
                      ELSE IF branch = "ok"
                      THEN [sm_sess EXCEPT ![session_id] = Touch(sm_sess[session_id], now)]
                      ELSE sm_sess
        /\ sm_ret' = [op |-> "require_mdlh_connection", sid |-> header,
                      result |-> IF branch = "ok" THEN session_id ELSE None,
                      removed |-> FALSE, probed |-> branch \in {"dead", "ok"}]
        /\ UNCHANGED <<now, sm_created, sm_running, sm_sweep, sm_removed>>
        /\ sessionFrame

\* The network: the connection of a session stops answering.
ConnDies(sid) ==
    /\ sid \in DOMAIN sm_sess
    /\ sm_sess[sid].conn = "live"
    /\ sm_sess' = [sm_sess EXCEPT ![sid].conn = "dead"]
    /\ sm_ret' = SmNoCall
    /\ UNCHANGED <<now, sm_created, sm_sessions, sm_running, sm_sweep, sm_removed>>
    /\ sessionFrame

SmTick ==
    /\ Tick
    /\ sm_ret' = SmNoCall
    /\ UNCHANGED <<sm_created, sm_sess, sm_sessions, sm_running, sm_sweep, sm_removed>>
    /\ sessionFrame

InitSession ==
    /\ sm_created = 0
    /\ sm_sess = <<>>
    /\ sm_sessions = {}
    /\ sm_running = TRUE
    /\ sm_sweep = "check"
    /\ sm_ret = SmNoCall
    /\ sm_removed = {}

IdleSession == InitSession

NextSession ==
    \/ SmCreateSession
    \/ \E sid \in SessionIds : SmGetSession(sid)
    \/ \E sid \in SessionIds : SmRemoveSession(sid)
    \/ \E header \in SessionIds \cup {None} : SmRequireConnection(header)
    \/ SmSweepCheck
    \/ SmSweepRun
    \/ SmShutdown
    \/ \E sid \in SessionIds : ConnDies(sid)
    \/ SmTick

---------------------------------------------------------------------------
(* Session.is_expired as a function of its inputs: one session, a clock in *)
(* minutes and the max_idle_minutes argument.                              *)

MaxIdleChoices == {0, 1, 30}

ExNoCall == [op |-> "none", result |-> FALSE]

ExTouch ==
    /\ ex_session.query_count < MaxQueryCount
    /\ ex_session' = Touch(ex_session, ex_now)
    /\ ex_ret' = [op |-> "touch", result |-> FALSE]
    /\ UNCHANGED <<ex_now, ex_max_idle>>
    /\ expiryFrame

ExIsExpired ==
    /\ ex_ret' = [op |-> "is_expired",
                  result |-> IsExpired(ex_session.last_used, ex_now, ex_max_idle)]
    /\ UNCHANGED <<ex_session, ex_now, ex_max_idle>>
    /\ expiryFrame

ExTick ==
    /\ ex_now < MaxMinutes
    /\ ex_now' = ex_now + 1
    /\ ex_ret' = ExNoCall
    /\ UNCHANGED <<ex_session, ex_max_idle>>
    /\ expiryFrame

InitExpiry ==
    /\ ex_session = NewSession(0)
    /\ ex_now = 0
    /\ ex_max_idle \in MaxIdleChoices
    /\ ex_ret = ExNoCall

IdleExpiry ==
    /\ ex_session = NewSession(0)
    /\ ex_now = 0
    /\ ex_max_idle = 0
    /\ ex_ret = ExNoCall

---------------------------------------------------------------------------
(* MdlhSessionContext.execute_query: the retrying executor.  One call is a *)
(* sequence of steps: an attempt (cursor, execute, fetch), the except      *)
(* clause that classifies the error, the resume command, the connection    *)
(* check.  What the query engine answers is chosen by the environment.     *)

MAX_RETRIES == 2

RETRYABLE_ERROR_PATTERNS ==
    {<<"c", "o", "n", "n", "e", "c", "t", "i", "o", "n">>,
     <<"n", "e", "t", "w", "o", "r", "k">>,
     <<"t", "i", "m", "e", "o", "u", "t">>,
     <<"s", "o", "c", "k", "e", "t">>,
     <<"c", "o", "m", "m", "u", "n", "i", "c", "a", "t", "i", "o", "n">>,
     <<"n", "o", "t", " ", "c", "o", "n", "n", "e", "c", "t", "e", "d">>,
     <<"c", "o", "n", "n", "e", "c", "t", "i", "o", "n", " ", "r", "e", "s",
      "e", "t">>}

WAREHOUSE_SUSPENDED_PATTERNS ==
    {<<"n", "o", " ", "a", "c", "t", "i", "v", "e", " ", "w", "a", "r", "e",
      "h", "o", "u", "s", "e">>,
     <<"w", "a", "r", "e", "h", "o", "u", "s", "e", " ", "c", "a", "n", "n",
      "o", "t", " ", "b", "e", " ", "u", "s", "e", "d">>}

WAREHOUSE_SUSPENDED_KEYWORDS ==
    {<<<<"w", "a", "r", "e", "h", "o", "u", "s", "e">>,
       <<"s", "u", "s", "p", "e", "n", "d">>>>,
     <<<<"w", "a", "r", "e", "h", "o", "u", "s", "e">>,
       <<"n", "o", "t", " ", "r", "u", "n", "n", "i", "n", "g">>>>,
     <<<<"w", "a", "r", "e", "h", "o", "u", "s", "e">>,
       <<"s", "t", "a", "r", "t", "i", "n", "g">>>>}

\* A classification that matches the patterns against the raw message.
IsRetryableErrorCaseSensitive(error) ==
    \E pattern \in RETRYABLE_ERROR_PATTERNS : Contains(error, pattern)

\* A classification that takes every message for a transient one.
IsRetryableErrorLoose(error) == Len(error) > 0

\* _is_retryable_error
IsRetryableError(error) ==
    LET error_msg == Lower(error)
    IN  \E pattern \in RETRYABLE_ERROR_PATTERNS : Contains(error_msg, pattern)

\* A classification that matches the patterns against the raw message.
IsWarehouseSuspendedErrorCaseSensitive(error) ==
    \/ \E pattern \in WAREHOUSE_SUSPENDED_PATTERNS : Contains(error, pattern)
    \/ \E kw \in WAREHOUSE_SUSPENDED_KEYWORDS :
          Contains(error, kw[1]) /\ Contains(error, kw[2])

\* _is_warehouse_suspended_error
IsWarehouseSuspendedError(error) ==
    LET error_msg == Lower(error)
    IN  \/ \E pattern \in WAREHOUSE_SUSPENDED_PATTERNS : Contains(error_msg, pattern)
        \/ \E kw \in WAREHOUSE_SUSPENDED_KEYWORDS :
              Contains(error_msg, kw[1]) /\ Contains(error_msg, kw[2])

\* The error messages the query engine answers with.
MsgSuspended ==
    <<"W", "a", "r", "e", "h", "o", "u", "s", "e", " ", "M", "Y", "W", "H",
      " ", "i", "s", " ", "s", "u", "s", "p", "e", "n", "d", "e", "d", ".">>
MsgConnection ==
    <<"C", "o", "n", "n", "e", "c", "t", "i", "o", "n", " ", "r", "e", "s",
      "e", "t">>
MsgSuspendedConnection ==
    <<"W", "a", "r", "e", "h", "o", "u", "s", "e", " ", "s", "u", "s", "p",
      "e", "n", "d", "e", "d", ":", " ", "c", "o", "n", "n", "e", "c", "t",
      "i", "o", "n", " ", "l", "o", "s", "t">>
MsgSyntax ==
    <<"S", "Q", "L", " ", "c", "o", "m", "p", "i", "l", "a", "t", "i", "o",
      "n", " ", "e", "r", "r", "o", "r">>
ErrorMessages == {MsgSuspended, MsgConnection, MsgSuspendedConnection, MsgSyntax}

NoError == <<>>
NoText == <<>>
SessionExpiredError == <<"SessionExpiredError">>
\* The error a failing cursor.close() raises.
CursorCloseError == <<"CursorCloseError">>
ExecQueries == {TxtQ1, <<"q", "2">>}
Warehouses == {<<>>, <<"M", "Y", "W", "H">>}
NoResult == [kind |-> "none", value |-> NoText]
ExecRows == {<<"rowsA">>, <<"rowsB">>}

\* Which way the except clause goes, with the budget test off by one.
ExceptBranchOneMore(attempt, error) ==
    IF attempt <= MAX_RETRIES /\ IsWarehouseSuspendedError(error) THEN "resume"
    ELSE IF attempt <= MAX_RETRIES /\ IsRetryableError(error) THEN "verify"
    ELSE "raise"

\* An except clause that tests for a transient error first.
ExceptBranchRetryableFirst(attempt, error) ==
    IF attempt < MAX_RETRIES /\ IsRetryableError(error) THEN "verify"
    ELSE IF attempt < MAX_RETRIES /\ IsWarehouseSuspendedError(error) THEN "resume"
    ELSE "raise"

\* The except clause: resume the warehouse, verify the connection or raise.
ExceptBranch(attempt, error) ==
    IF attempt < MAX_RETRIES /\ IsWarehouseSuspendedError(error) THEN "resume"
    ELSE IF attempt < MAX_RETRIES /\ IsRetryableError(error) THEN "verify"
    ELSE "raise"

Raised(error) == [kind |-> "error", value |-> error]

\* cursor = self.session.conn.cursor(): the attempt gets a cursor of its own.
CursorOpen(cursors) == Append(cursors, "open")

\* A close that leaves the cursor as it is.
CursorCloseForgets(cursors) == cursors

\* cursor.close() on the cursor of the current attempt; closing a closed
\* cursor changes nothing.
CursorClose(cursors) == [cursors EXCEPT ![Len(cursors)] = "closed"]

\* require_mdlh_connection: session_manager.get_session finds the session
\* of the request and touches it; the MdlhSessionContext of the request is
\* built around it.
EqRequest ==
    /\ eq_pc \in {"idle", "returned", "raised"}
    /\ eq_session.query_count < MaxQueryCount
    /\ eq_session' = Touch(eq_session, now)
    /\ UNCHANGED <<eq_pc, eq_query, eq_warehouse, eq_attempt, eq_last_error,
                   eq_executed, eq_result, eq_resume_ok, eq_verify_ok, eq_cursors,
                   eq_helper_open, eq_attempts, eq_resumes, eq_probes>>
    /\ execFrame

\* Time passes while a query runs on the engine and between calls; the
\* statements of the except clause read no clock.
EqTick ==
    /\ eq_pc \in {"idle", "attempt", "returned", "raised"}
    /\ Tick
    /\ UNCHANGED <<cacheVars, sessionVars, expiryVars, execVars, metaVars, identVars,
                   lockVars, metaLockVars, removalVars, fetchVars, limiterVars>>

\* A call of execute_query(query) on a session with the given warehouse.
EqCall(query, warehouse) ==
    /\ eq_pc \in {"idle", "returned", "raised"}
    /\ eq_session.query_count > 0
    /\ eq_pc' = "attempt"
    /\ eq_query' = query
    /\ eq_warehouse' = warehouse
    /\ eq_attempt' = 0
    /\ eq_last_error' = NoError
    /\ eq_executed' = NoText
    /\ eq_result' = NoResult
    /\ eq_resume_ok' = FALSE
    /\ eq_verify_ok' = FALSE
    /\ eq_cursors' = <<>>
    /\ eq_helper_open' = 0
    /\ eq_attempts' = 0
    /\ eq_resumes' = 0
    /\ eq_probes' = 0
    /\ UNCHANGED eq_session
    /\ execFrame

\* An attempt succeeds: the rows are converted and returned, and the
\* finally clause closes the cursor.
EqAttemptOk(rows) ==
    /\ eq_pc = "attempt"
    /\ eq_pc' = "returned"
    /\ eq_executed' = eq_query
    /\ eq_attempts' = eq_attempts + 1
    /\ eq_result' = [kind |-> "rows", value |-> rows]
    /\ eq_cursors' = CursorClose(CursorOpen(eq_cursors))
    /\ UNCHANGED <<eq_query, eq_warehouse, eq_attempt, eq_last_error, eq_resume_ok,
                   eq_verify_ok, eq_helper_open, eq_resumes, eq_probes>>
    /\ UNCHANGED eq_session
    /\ execFrame

\* An attempt fails: cursor.execute raises an error with message msg and
\* the except clause binds it.
EqAttemptFail(msg) ==
    /\ eq_pc = "attempt"
    /\ eq_pc' = "except_close"
    /\ eq_executed' = eq_query
    /\ eq_attempts' = eq_attempts + 1
    /\ eq_last_error' = msg
    /\ eq_cursors' = CursorOpen(eq_cursors)
    /\ UNCHANGED <<eq_query, eq_warehouse, eq_attempt, eq_result, eq_resume_ok,
                   eq_verify_ok, eq_helper_open, eq_resumes, eq_probes>>
    /\ UNCHANGED eq_session
    /\ execFrame

\* The except clause starts with cursor.close(), outside any try of its
\* own; closes says whether the call returns.  When it raises, the error
\* it raises leaves the except clause in place of the query error, the
\* finally clause calls close once more and swallows what that raises,
\* and execute_query raises the close error.
EqExceptClose(closes) ==
    /\ eq_pc = "except_close"
    /\ eq_pc' = IF closes THEN "except" ELSE "raised"
    /\ eq_result' = IF closes THEN eq_result ELSE Raised(CursorCloseError)
    /\ eq_cursors' = IF closes THEN CursorClose(eq_cursors)
                      ELSE CursorClose(CursorClose(eq_cursors))
    /\ UNCHANGED <<eq_query, eq_warehouse, eq_attempt, eq_last_error, eq_executed,
                   eq_resume_ok, eq_verify_ok, eq_helper_open, eq_attempts,
                   eq_resumes, eq_probes>>
    /\ UNCHANGED eq_session
    /\ execFrame

\* The rest of the except clause classifies the error; when it raises, the
\* finally clause closes the cursor once more.
EqExcept ==
    LET branch == ExceptBranch(eq_attempt, eq_last_error)
    IN  /\ eq_pc = "except"
        /\ eq_pc' = IF branch = "raise" THEN "raised" ELSE branch
        /\ eq_result' = IF branch = "raise" THEN Raised(eq_last_error) ELSE eq_result
        /\ eq_cursors' = IF branch = "raise" THEN CursorClose(eq_cursors)
                          ELSE eq_cursors
        /\ UNCHANGED <<eq_query, eq_warehouse, eq_attempt, eq_last_error, eq_executed,
                       eq_resume_ok, eq_verify_ok, eq_helper_open, eq_attempts,
                       eq_resumes, eq_probes>>
        /\ UNCHANGED eq_session
        /\ execFrame

\* "continue": the next iteration of "for attempt in range(MAX_RETRIES + 1)",
\* or, were the range exhausted, "raise last_error" after the loop.
Continue ==
    /\ eq_pc' = IF eq_attempt + 1 <= MAX_RETRIES THEN "attempt" ELSE "raised"
    /\ eq_attempt' = IF eq_attempt + 1 <= MAX_RETRIES THEN eq_attempt + 1 ELSE eq_attempt
    /\ eq_result' = IF eq_attempt + 1 <= MAX_RETRIES THEN eq_result
                    ELSE Raised(eq_last_error)

\* _resume_warehouse and what follows it; ok is the engine's answer to
\* ALTER WAREHOUSE ... RESUME IF SUSPENDED.  When the statement raises,
\* the helper returns without closing its cursor.  Leaving the try
\* statement (continue or raise) runs the finally clause.
EqResume(ok) ==
    LET issued == eq_warehouse # NoText
        resumed == issued /\ ok
    IN  /\ eq_pc = "resume"
        /\ eq_resumes' = IF issued THEN eq_resumes + 1 ELSE eq_resumes
        /\ eq_resume_ok' = resumed
        /\ eq_helper_open' = IF issued /\ ~ok THEN eq_helper_open + 1
                              ELSE eq_helper_open
        /\ IF resumed THEN Continue
           ELSE /\ eq_pc' = "raised"
                /\ eq_result' = Raised(eq_last_error)
                /\ UNCHANGED eq_attempt
        /\ eq_cursors' = CursorClose(eq_cursors)
        /\ UNCHANGED <<eq_query, eq_warehouse, eq_last_error, eq_executed,
                       eq_verify_ok, eq_attempts, eq_probes>>
        /\ UNCHANGED eq_session
    /\ execFrame

\* _verify_connection and what follows it; alive is the engine's answer to
\* SELECT 1.  When the statement raises, the helper returns without
\* closing its cursor.  Leaving the try statement (continue or raise) runs
\* the finally clause.
EqVerify(alive) ==
    /\ eq_pc = "verify"
    /\ eq_probes' = eq_probes + 1
    /\ eq_verify_ok' = alive
    /\ eq_helper_open' = IF alive THEN eq_helper_open ELSE eq_helper_open + 1
    /\ IF alive THEN Continue
       ELSE /\ eq_pc' = "raised"
            /\ eq_result' = Raised(SessionExpiredError)
            /\ UNCHANGED eq_attempt
    /\ eq_cursors' = CursorClose(eq_cursors)
    /\ UNCHANGED <<eq_query, eq_warehouse, eq_last_error, eq_executed, eq_resume_ok,
                   eq_attempts, eq_resumes>>
    /\ UNCHANGED eq_session
    /\ execFrame

InitExec ==
    /\ eq_pc = "idle"
    /\ eq_query = NoText
    /\ eq_warehouse = NoText
    /\ eq_attempt = 0
    /\ eq_last_error = NoError
    /\ eq_executed = NoText
    /\ eq_result = NoResult
    /\ eq_resume_ok = FALSE
    /\ eq_verify_ok = FALSE
    /\ eq_cursors = <<>>
    /\ eq_helper_open = 0
    /\ eq_attempts = 0
    /\ eq_resumes = 0
    /\ eq_probes = 0
    /\ eq_session = NewSession(0)

IdleExec == InitExec

---------------------------------------------------------------------------
(* MetadataCache: four dictionaries from a path key to {data, cached_at}.  *)
(* A dictionary is a function whose domain is the set of keys it holds; a  *)
(* key is the text account/database/schema/table, built as the f-strings   *)
(* of the code build it.                                                   *)

Slash == <<"/">>

\* The names the callers cache metadata under.
Accounts == {<<"a">>, <<"b">>}
Databases == {<<"D">>, <<"D", "2">>}
Schemas == {<<"S">>}
Tables == {<<"T">>}
MetaData == {"namesA", "namesB"}

\* f"{account}/{database}"
SchemasKey(account, database) == account \o Slash \o database
\* f"{account}/{database}/{schema}"
TablesKey(account, database, schema) ==
    account \o Slash \o database \o Slash \o schema
\* f"{account}/{database}/{schema}/{table}"
ColumnsKey(account, database, schema, table) ==
    account \o Slash \o database \o Slash \o schema \o Slash \o table

\* A prefix test that accepts the prefix itself only.
StartsWithExact(text, prefix) == text = prefix

\* str.startswith
StartsWith(text, prefix) ==
    /\ Len(prefix) <= Len(text)
    /\ SubSeq(text, 1, Len(prefix)) = prefix

\* MetadataCache._is_expired; every stored entry has a cached_at.
MetaIsExpiredInclusive(entry, t, ttl) == t - entry.cached_at >= ttl

MetaIsExpired(entry, t, ttl) == t - entry.cached_at > ttl

\* get_X: the data of a stored, unexpired entry, a miss otherwise.
MetaGet(dict, key, t, ttl) ==
    IF key \in DOMAIN dict /\ ~MetaIsExpired(dict[key], t, ttl)
    THEN dict[key].data
    ELSE Miss

\* set_X: self._X[key] = {"data": ..., "cached_at": utcnow()}
MetaSet(dict, key, data, t) ==
    [k \in DOMAIN dict \cup {key} |->
        IF k = key THEN [data |-> data, cached_at |-> t] ELSE dict[k]]

\* {k: v for k, v in dict.items() if not k.startswith(prefix)}
MetaWithoutPrefix(dict, prefix) ==
    [k \in {key \in DOMAIN dict : ~StartsWith(key, prefix)} |-> dict[k]]

EmptyDict == [k \in {} |-> [data |-> "namesA", cached_at |-> 0]]

\* MetadataCache.get_stats: the four counts.
McGetStats ==
    [databases |-> Cardinality(DOMAIN mc_databases),
     schemas |-> Cardinality(DOMAIN mc_schemas),
     tables |-> Cardinality(DOMAIN mc_tables),
     columns |-> Cardinality(DOMAIN mc_columns)]

\* The call made by the last step: its tier, its key and what it returned;
\* for invalidate_database, account and database are the arguments and
\* removed is the number of entries the call dropped.
McNoCall ==
    [op |-> "none", tier |-> "none", key |-> NoText, result |-> Miss,
     account |-> NoText, database |-> NoText, removed |-> 0]

McCall(op, tier, key, result) ==
    [op |-> op, tier |-> tier, key |-> key, result |-> result,
     account |-> NoText, database |-> NoText, removed |-> 0]

McGetDatabases(account) ==
    /\ mc_ret' = McCall("get", "databases", account,
                        MetaGet(mc_databases, account, now, TtlDatabases))
    /\ UNCHANGED <<now, mc_databases, mc_schemas, mc_tables, mc_columns, mc_sets>>
    /\ metaFrame

McSetDatabases(account, data) ==
    /\ mc_sets < MaxMetaSets
    /\ mc_sets' = mc_sets + 1
    /\ mc_databases' = MetaSet(mc_databases, account, data, now)
    /\ mc_ret' = McCall("set", "databases", account, data)
    /\ UNCHANGED <<now, mc_schemas, mc_tables, mc_columns>>
    /\ metaFrame

McGetSchemas(account, database) ==
    LET key == SchemasKey(account, database)
    IN  /\ mc_ret' = McCall("get", "schemas", key,
                            MetaGet(mc_schemas, key, now, TtlSchemas))
        /\ UNCHANGED <<now, mc_databases, mc_schemas, mc_tables, mc_columns, mc_sets>>
        /\ metaFrame

McSetSchemas(account, database, data) ==
    LET key == SchemasKey(account, database)
    IN  /\ mc_sets < MaxMetaSets
        /\ mc_sets' = mc_sets + 1
        /\ mc_schemas' = MetaSet(mc_schemas, key, data, now)
        /\ mc_ret' = McCall("set", "schemas", key, data)
        /\ UNCHANGED <<now, mc_databases, mc_tables, mc_columns>>
        /\ metaFrame

McGetTables(account, database, schema) ==
    LET key == TablesKey(account, database, schema)
    IN  /\ mc_ret' = McCall("get", "tables", key,
                            MetaGet(mc_tables, key, now, TtlTables))
        /\ UNCHANGED <<now, mc_databases, mc_schemas, mc_tables, mc_columns, mc_sets>>
        /\ metaFrame

McSetTables(account, database, schema, data) ==
    LET key == TablesKey(account, database, schema)
    IN  /\ mc_sets < MaxMetaSets
        /\ mc_sets' = mc_sets + 1
        /\ mc_tables' = MetaSet(mc_tables, key, data, now)
        /\ mc_ret' = McCall("set", "tables", key, data)
        /\ UNCHANGED <<now, mc_databases, mc_schemas, mc_columns>>
        /\ metaFrame

McGetColumns(account, database, schema, table) ==
    LET key == ColumnsKey(account, database, schema, table)
    IN  /\ mc_ret' = McCall("get", "columns", key,
                            MetaGet(mc_columns, key, now, TtlColumns))
        /\ UNCHANGED <<now, mc_databases, mc_schemas, mc_tables, mc_columns, mc_sets>>
        /\ metaFrame

McSetColumns(account, database, schema, table, data) ==
    LET key == ColumnsKey(account, database, schema, table)
    IN  /\ mc_sets < MaxMetaSets
        /\ mc_sets' = mc_sets + 1
        /\ mc_columns' = MetaSet(mc_columns, key, data, now)
        /\ mc_ret' = McCall("set", "columns", key, data)
        /\ UNCHANGED <<now, mc_databases, mc_schemas, mc_tables>>
        /\ metaFrame

\* MetadataCache.invalidate_all
McInvalidateAll ==
    /\ mc_databases' = EmptyDict
    /\ mc_schemas' = EmptyDict
    /\ mc_tables' = EmptyDict
    /\ mc_columns' = EmptyDict
    /\ mc_ret' = McCall("invalidate_all", "none", NoText, Miss)
    /\ UNCHANGED <<now, mc_sets>>
    /\ metaFrame

\* MetadataCache.invalidate_database
McInvalidateDatabase(account, database) ==
    LET prefix == SchemasKey(account, database)
    IN  /\ mc_schemas' = MetaWithoutPrefix(mc_schemas, prefix)
        /\ mc_tables' = MetaWithoutPrefix(mc_tables, prefix)
        /\ mc_columns' = MetaWithoutPrefix(mc_columns, prefix)
        /\ mc_ret' = [op |-> "invalidate_database", tier |-> "none", key |-> prefix,
                      result |-> Miss, account |-> account, database |-> database,
                      removed |-> Cardinality(DOMAIN mc_schemas)
                                  + Cardinality(DOMAIN mc_tables)
                                  + Cardinality(DOMAIN mc_columns)
                                  - Cardinality(DOMAIN mc_schemas')
                                  - Cardinality(DOMAIN mc_tables')
                                  - Cardinality(DOMAIN mc_columns')]
        /\ UNCHANGED <<now, mc_databases, mc_sets>>
        /\ metaFrame

McTick ==
    /\ Tick
    /\ mc_ret' = McNoCall
    /\ UNCHANGED <<mc_databases, mc_schemas, mc_tables, mc_columns, mc_sets>>
    /\ metaFrame

InitMeta ==
    /\ mc_databases = EmptyDict
    /\ mc_schemas = EmptyDict
    /\ mc_tables = EmptyDict
    /\ mc_columns = EmptyDict
    /\ mc_sets = 0
    /\ mc_ret = McNoCall

IdleMeta == InitMeta

NextMeta ==
    \/ \E a \in Accounts : McGetDatabases(a)
    \/ \E a \in Accounts, data \in MetaData : McSetDatabases(a, data)
    \/ \E a \in Accounts, d \in Databases : McGetSchemas(a, d)
    \/ \E a \in Accounts, d \in Databases, data \in MetaData : McSetSchemas(a, d, data)
    \/ \E a \in Accounts, d \in Databases, s \in Schemas : McGetTables(a, d, s)
    \/ \E a \in Accounts, d \in Databases, s \in Schemas, data \in MetaData :
          McSetTables(a, d, s, data)
    \/ \E a \in Accounts, d \in Databases, s \in Schemas, t \in Tables :
          McGetColumns(a, d, s, t)
    \/ \E a \in Accounts, d \in Databases, s \in Schemas, t \in Tables, data \in MetaData :
          McSetColumns(a, d, s, t, data)
    \/ McInvalidateAll
    \/ \E a \in Accounts, d \in Databases : McInvalidateDatabase(a, d)
    \/ McTick

---------------------------------------------------------------------------
(* Identifier validation: SnowflakeService._validate_identifier and the    *)
(* same test inlined in MdlhSessionContext.get_snowflake_schemas.  A raw   *)
(* name is a text; the regular expression is matched character by          *)
(* character, as re.match does.                                            *)

Digits == {"0", "1", "2", "3", "4", "5", "6", "7", "8", "9"}
Letters ==
    {UpperLetters[i] : i \in 1..Len(UpperLetters)}
        \cup {LowerLetters[i] : i \in 1..Len(LowerLetters)}

\* [A-Za-z_]
HeadChars == Letters \cup {"_"}
\* [A-Za-z0-9_$]
BodyChars == Letters \cup Digits \cup {"_", "$"}

LineFeed == "\n"

\* "$" of a pattern compiled without flags: it matches at the end of the
\* text and also just before a line feed that ends the text.
EndAnchor(text, pos) ==
    \/ pos = Len(text) + 1
    \/ pos = Len(text) /\ text[pos] = LineFeed

\* IDENTIFIER_REGEX.match(name) for ^[A-Za-z_][A-Za-z0-9_$]*$: one head
\* character, then body characters up to a position where "$" matches.
RegexMatch(name) ==
    /\ Len(name) >= 1
    /\ name[1] \in HeadChars
    /\ \E pos \in 2..(Len(name) + 1) :
          /\ \A i \in 2..(pos - 1) : name[i] \in BodyChars
          /\ EndAnchor(name, pos)

\* str.upper(), one character
UpperChar(ch) ==
    IF \E i \in 1..Len(LowerLetters) : LowerLetters[i] = ch
    THEN UpperLetters[CHOOSE i \in 1..Len(LowerLetters) : LowerLetters[i] = ch]
    ELSE ch

\* str.upper()
Upper(text) == [i \in 1..Len(text) |-> UpperChar(text[i])]

\* The raw names: every text of at most MaxIdentLen of these characters.
IdentChars == {"a", "Z", "_", "7", "$", "-", LineFeed}
IdentNames == UNION {[1..n -> IdentChars] : n \in 0..MaxIdentLen}

NoName == <<>>
IdNoCall == [op |-> "none", ok |-> FALSE, value |-> NoName]

\* _validate_identifier(name): the upper-cased name, or ValueError.
ValidateIdentifier(name) ==
    IF name = NoName \/ ~RegexMatch(name)
    THEN [op |-> "_validate_identifier", ok |-> FALSE, value |-> NoName]
    ELSE [op |-> "_validate_identifier", ok |-> TRUE, value |-> Upper(name)]

\* get_snowflake_schemas(database): the test it makes before anything else
\* and the db_upper it goes on with.
ValidateDatabaseName(database) ==
    IF ~RegexMatch(database)
    THEN [op |-> "get_snowflake_schemas", ok |-> FALSE, value |-> NoName]
    ELSE [op |-> "get_snowflake_schemas", ok |-> TRUE, value |-> Upper(database)]

\* A caller passes another raw name.
IdChoose(name) ==
    /\ id_name' = name
    /\ id_ret' = IdNoCall
    /\ identFrame

IdValidateIdentifier ==
    /\ id_ret' = ValidateIdentifier(id_name)
    /\ UNCHANGED id_name
    /\ identFrame

IdValidateDatabaseName ==
    /\ id_ret' = ValidateDatabaseName(id_name)
    /\ UNCHANGED id_name
    /\ identFrame

InitIdent ==
    /\ id_name \in IdentNames
    /\ id_ret = IdNoCall

IdleIdent ==
    /\ id_name = NoName
    /\ id_ret = IdNoCall

NextIdent ==
    \/ \E name \in IdentNames : IdChoose(name)
    \/ IdValidateIdentifier
    \/ IdValidateDatabaseName

---------------------------------------------------------------------------
(* SessionManager under concurrent callers.  Request threads call          *)
(* create_session, get_session, remove_session and shutdown while the      *)
(* cleanup thread runs _cleanup_loop.  A with-block on self._lock is       *)
(* entered by an acquire step and runs statement by statement while the    *)
(* lock is held; a with-block of one registry statement is a single step.  *)

RequestThreads == {"t1", "t2"}
Sweeper == "cleanup"
Threads == RequestThreads \cup {Sweeper}

\* An acquire that does not wait for the lock.
CanAcquireAlways(lock, t) == TRUE

\* threading.RLock: a thread enters when the lock is free or its own.
CanAcquire(lock, t) == lock \in {"free", t}

\* The locals of a call: its session id, the ids it has still to remove,
\* and, as history, the ids registered when it was called and the ids it
\* closed.
NoLocals == [sid |-> None, todo |-> {}, atcall |-> {}, closed |-> {}]

\* A call that returned: atcall and closed are taken from its locals.
LkNoCall ==
    [op |-> "none", thread |-> "none", sid |-> None, result |-> None,
     atcall |-> {}, closed |-> {}]

\* One thread's pc, locals and return value change.
LkGoto(t, pc) == lk_pc' = [lk_pc EXCEPT ![t] = pc]
LkLocals(t, locals) == lk_local' = [lk_local EXCEPT ![t] = locals]
LkReturn(t, ret) == lk_ret' = [ret EXCEPT !.thread = t]

\* create_session: the session object is built before the lock is taken.
LkCreateStart(t) ==
    /\ lk_pc[t] = "idle"
    /\ lk_created < MaxSessions
    /\ lk_created' = lk_created + 1
    /\ lk_sess' = Append(lk_sess, NewSession(now))
    /\ LkGoto(t, "create_insert")
    /\ LkLocals(t, [NoLocals EXCEPT !.sid = lk_created + 1])
    /\ lk_ret' = LkNoCall
    /\ UNCHANGED <<now, lk_lock, lk_sessions, lk_running>>
    /\ lockFrame

\* create_session: "with self._lock: self._sessions[session_id] = session".
LkCreateInsert(t) ==
    /\ lk_pc[t] = "create_insert"
    /\ CanAcquire(lk_lock, t)
    /\ lk_sessions' = lk_sessions \cup {lk_local[t].sid}
    /\ LkGoto(t, "idle")
    /\ LkLocals(t, NoLocals)
    /\ LkReturn(t, [LkNoCall EXCEPT !.op = "create_session", !.sid = lk_local[t].sid,
                                    !.result = lk_local[t].sid])
    /\ UNCHANGED <<now, lk_lock, lk_sess, lk_running, lk_created>>
    /\ lockFrame

\* get_session: "with self._lock:".
LkGetAcquire(t, sid) ==
    /\ lk_pc[t] = "idle"
    /\ sid \in DOMAIN lk_sess => lk_sess[sid].query_count < MaxQueryCount
    /\ CanAcquire(lk_lock, t)
    /\ lk_lock' = t
    /\ LkGoto(t, "get_lookup")
    /\ LkLocals(t, [NoLocals EXCEPT !.sid = sid])
    /\ lk_ret' = LkNoCall
    /\ UNCHANGED <<now, lk_sess, lk_sessions, lk_running, lk_created>>
    /\ lockFrame

\* get_session: the lookup and the idle test; an absent id returns None,
\* an expired session is removed and closed.
LkGetLookup(t) ==
    LET sid == lk_local[t].sid
        absent == sid \notin lk_sessions
        expired == ~absent /\ IsExpired(lk_sess[sid].last_used, now, MaxIdle)
    IN  /\ lk_pc[t] = "get_lookup"
        /\ IF absent \/ expired
           THEN /\ lk_sessions' = Pop(lk_sessions, sid)
                /\ lk_sess' = RemoveCloses(lk_sess, lk_sessions, sid)
                /\ lk_lock' = "free"
                /\ LkGoto(t, "idle")
                /\ LkLocals(t, NoLocals)
                /\ LkReturn(t, [LkNoCall EXCEPT !.op = "get_session", !.sid = sid,
                                                !.closed = IF expired THEN {sid} ELSE {}])
           ELSE /\ LkGoto(t, "get_probe")
                /\ lk_ret' = LkNoCall
                /\ UNCHANGED <<lk_sessions, lk_sess, lk_lock, lk_local>>
        /\ UNCHANGED <<now, lk_running, lk_created>>
        /\ lockFrame

\* get_session: session.is_alive() runs SELECT 1 on the connection; a dead
\* session is removed and closed, a live one is touched and returned.
LkGetProbe(t) ==
    LET sid == lk_local[t].sid
        alive == IsAlive(lk_sess[sid])
    IN  /\ lk_pc[t] = "get_probe"
        /\ lk_sessions' = IF alive THEN lk_sessions ELSE Pop(lk_sessions, sid)
        /\ lk_sess' = IF alive THEN [lk_sess EXCEPT ![sid] = Touch(lk_sess[sid], now)]
                      ELSE RemoveCloses(lk_sess, lk_sessions, sid)
        /\ lk_lock' = "free"
        /\ LkGoto(t, "idle")
        /\ LkLocals(t, NoLocals)
        /\ LkReturn(t, [LkNoCall EXCEPT !.op = "get_session", !.sid = sid,
                                        !.result = IF alive THEN sid ELSE None,
                                        !.closed = IF alive THEN {} ELSE {sid}])
        /\ UNCHANGED <<now, lk_running, lk_created>>
        /\ lockFrame

\* remove_session: "with self._lock: return self._remove_session_unsafe(...)".
LkRemoveSession(t, sid) ==
    /\ lk_pc[t] = "idle"
    /\ CanAcquire(lk_lock, t)
    /\ lk_sessions' = Pop(lk_sessions, sid)
    /\ lk_sess' = RemoveCloses(lk_sess, lk_sessions, sid)
    /\ LkReturn(t, [LkNoCall EXCEPT !.op = "remove_session", !.sid = sid,
                                    !.closed = lk_sessions \cap {sid}])
    /\ UNCHANGED <<now, lk_lock, lk_pc, lk_local, lk_running, lk_created>>
    /\ lockFrame

\* _cleanup_loop, "while self._running": enter the sleep or leave the loop.
LkSweepCheck ==
    /\ lk_pc[Sweeper] = "check"
    /\ LkGoto(Sweeper, IF lk_running THEN "sleep" ELSE "done")
    /\ lk_ret' = LkNoCall
    /\ UNCHANGED <<now, lk_lock, lk_local, lk_sess, lk_sessions, lk_running,
                   lk_created>>
    /\ lockFrame

\* _cleanup_expired: the sleep is over, "with self._lock:".
LkSweepAcquire ==
    /\ lk_pc[Sweeper] = "sleep"
    /\ CanAcquire(lk_lock, Sweeper)
    /\ lk_lock' = Sweeper
    /\ LkGoto(Sweeper, "scan")
    /\ lk_ret' = LkNoCall
    /\ UNCHANGED <<now, lk_local, lk_sess, lk_sessions, lk_running, lk_created>>
    /\ lockFrame

\* _cleanup_expired: the scan that builds the list expired.
LkSweepScan ==
    /\ lk_pc[Sweeper] = "scan"
    /\ LkGoto(Sweeper, "evict")
    /\ LkLocals(Sweeper, [NoLocals EXCEPT !.todo = ExpiredIds(lk_sess, lk_sessions, now),
                                          !.atcall = lk_sessions])
    /\ lk_ret' = LkNoCall
    /\ UNCHANGED <<now, lk_lock, lk_sess, lk_sessions, lk_running, lk_created>>
    /\ lockFrame

\* _cleanup_expired: "for sid in expired: self._remove_session_unsafe(sid)",
\* one session per step; the lock is released when the list is exhausted.
LkSweepEvict ==
    LET todo == lk_local[Sweeper].todo
    IN  /\ lk_pc[Sweeper] = "evict"
        /\ IF todo = {}
           THEN /\ lk_lock' = "free"
                /\ LkGoto(Sweeper, "check")
                /\ LkLocals(Sweeper, NoLocals)
                /\ LkReturn(Sweeper, [LkNoCall EXCEPT !.op = "sweep",
                                                      !.atcall = lk_local[Sweeper].atcall,
                                                      !.closed = lk_local[Sweeper].closed])
                /\ UNCHANGED <<lk_sess, lk_sessions>>
           ELSE /\ lk_sessions' = Pop(lk_sessions, FirstKey(todo))
                /\ lk_sess' = RemoveCloses(lk_sess, lk_sessions, FirstKey(todo))
                /\ LkLocals(Sweeper, [lk_local[Sweeper] EXCEPT
                                        !.todo = todo \ {FirstKey(todo)},
                                        !.closed = @ \cup (lk_sessions \cap {FirstKey(todo)})])
                /\ lk_ret' = LkNoCall
                /\ UNCHANGED <<lk_lock, lk_pc>>
        /\ UNCHANGED <<now, lk_running, lk_created>>
        /\ lockFrame

\* shutdown: "self._running = False", before the lock is taken.  atcall
\* remembers the sessions registered when shutdown was called.
LkShutdownStart(t) ==
    /\ lk_pc[t] = "idle"
    /\ lk_running
    /\ lk_running' = FALSE
    /\ LkGoto(t, "shutdown_lock")
    /\ LkLocals(t, [NoLocals EXCEPT !.atcall = lk_sessions])
    /\ lk_ret' = LkNoCall
    /\ UNCHANGED <<now, lk_lock, lk_sess, lk_sessions, lk_created>>
    /\ lockFrame

\* shutdown: "with self._lock:" and list(self._sessions.keys()).
LkShutdownAcquire(t) ==
    /\ lk_pc[t] = "shutdown_lock"
    /\ CanAcquire(lk_lock, t)
    /\ lk_lock' = t
    /\ LkGoto(t, "shutdown_remove")
    /\ LkLocals(t, [lk_local[t] EXCEPT !.todo = lk_sessions])
    /\ lk_ret' = LkNoCall
    /\ UNCHANGED <<now, lk_sess, lk_sessions, lk_running, lk_created>>
    /\ lockFrame

\* shutdown: the loop over the listed ids, one session per step; when the
\* list is exhausted the lock is released and shutdown returns.
LkShutdownRemove(t) ==
    LET todo == lk_local[t].todo
    IN  /\ lk_pc[t] = "shutdown_remove"
        /\ IF todo = {}
           THEN /\ lk_lock' = "free"
                /\ LkGoto(t, "idle")
                /\ LkLocals(t, NoLocals)
                /\ LkReturn(t, [LkNoCall EXCEPT !.op = "shutdown",
                                                !.atcall = lk_local[t].atcall,
                                                !.closed = lk_local[t].closed])
                /\ UNCHANGED <<lk_sess, lk_sessions>>
           ELSE /\ lk_sessions' = Pop(lk_sessions, FirstKey(todo))
                /\ lk_sess' = RemoveCloses(lk_sess, lk_sessions, FirstKey(todo))
                /\ LkLocals(t, [lk_local[t] EXCEPT
                                  !.todo = todo \ {FirstKey(todo)},
                                  !.closed = @ \cup (lk_sessions \cap {FirstKey(todo)})])
                /\ lk_ret' = LkNoCall
                /\ UNCHANGED <<lk_lock, lk_pc>>
        /\ UNCHANGED <<now, lk_running, lk_created>>
        /\ lockFrame

\* The network: the connection of a session stops answering.
LkConnDies(sid) ==
    /\ sid \in DOMAIN lk_sess
    /\ lk_sess[sid].conn = "live"
    /\ lk_sess' = [lk_sess EXCEPT ![sid].conn = "dead"]
    /\ lk_ret' = LkNoCall
    /\ UNCHANGED <<now, lk_lock, lk_pc, lk_local, lk_sessions, lk_running, lk_created>>
    /\ lockFrame

LkTick ==
    /\ Tick
    /\ lk_ret' = LkNoCall
    /\ UNCHANGED <<lk_lock, lk_pc, lk_local, lk_sess, lk_sessions, lk_running, lk_created>>
    /\ lockFrame

InitLock ==
    /\ lk_lock = "free"
    /\ lk_pc = [t \in Threads |-> IF t = Sweeper THEN "check" ELSE "idle"]
    /\ lk_local = [t \in Threads |-> NoLocals]
    /\ lk_ret = LkNoCall
    /\ lk_sess = <<>>
    /\ lk_sessions = {}
    /\ lk_running = TRUE
    /\ lk_created = 0

IdleLock == InitLock

NextLock ==
    \/ \E t \in RequestThreads : LkCreateStart(t)
    \/ \E t \in RequestThreads : LkCreateInsert(t)
    \/ \E t \in RequestThreads, sid \in SessionIds : LkGetAcquire(t, sid)
    \/ \E t \in RequestThreads : LkGetLookup(t)
    \/ \E t \in RequestThreads : LkGetProbe(t)
    \/ \E t \in RequestThreads, sid \in SessionIds : LkRemoveSession(t, sid)
    \/ LkSweepCheck
    \/ LkSweepAcquire
    \/ LkSweepScan
    \/ LkSweepEvict
    \/ \E t \in RequestThreads : LkShutdownStart(t)
    \/ \E t \in RequestThreads : LkShutdownAcquire(t)
    \/ \E t \in RequestThreads : LkShutdownRemove(t)
    \/ \E sid \in SessionIds : LkConnDies(sid)
    \/ LkTick

---------------------------------------------------------------------------
(* MetadataCache under concurrent callers: invalidate_database and         *)
(* invalidate_all statement by statement, get_X and set_X as the bodies of *)
(* their "with self._lock" blocks.                                         *)

MetaThreads == {"m1", "m2"}

\* A threading.RLock that never makes a caller wait.
CanAcquireMetaAlways(lock, t) == TRUE

\* with self._lock: the RLock is free or held by the caller.
CanAcquireMeta(lock, t) == lock \in {"free", t}

\* The dictionary and the TTL of a tier of the metadata cache.
TierDict(tier) ==
    CASE tier = "databases" -> mc_databases
      [] tier = "schemas" -> mc_schemas
      [] tier = "tables" -> mc_tables
      [] OTHER -> mc_columns

TierTtl(tier) ==
    CASE tier = "databases" -> TtlDatabases
      [] tier = "schemas" -> TtlSchemas
      [] tier = "tables" -> TtlTables
      [] OTHER -> TtlColumns

Tiers == {"databases", "schemas", "tables", "columns"}

\* The keys a get_X / set_X of a tier can be called with.
TierKeys(tier) ==
    CASE tier = "databases" -> Accounts
      [] tier = "schemas" -> {SchemasKey(a, d) : a \in Accounts, d \in Databases}
      [] tier = "tables" ->
            {TablesKey(a, d, sc) : a \in Accounts, d \in Databases, sc \in Schemas}
      [] OTHER ->
            {ColumnsKey(a, d, sc, t) :
                a \in Accounts, d \in Databases, sc \in Schemas, t \in Tables}

\* The entries stored in the four dictionaries, as (tier, key) pairs.
StoredEntries ==
    UNION {{<<tier, key>> : key \in DOMAIN TierDict(tier)} : tier \in Tiers}

MlNoLocals == [prefix |-> NoText, before |-> {}]

metaLockFrame ==
    UNCHANGED <<cacheVars, sessionVars, expiryVars, execVars, identVars, lockVars,
                removalVars, fetchVars,
                limiterVars>>

\* get_databases / get_schemas / get_tables / get_columns
MlGet(t, tier, key) ==
    /\ ml_pc[t] = "idle"
    /\ CanAcquireMeta(ml_lock, t)
    /\ mc_ret' = McCall("get", tier, key,
                        MetaGet(TierDict(tier), key, now, TierTtl(tier)))
    /\ UNCHANGED <<now, mc_databases, mc_schemas, mc_tables, mc_columns, mc_sets>>
    /\ UNCHANGED metaLockVars
    /\ metaLockFrame

\* set_databases / set_schemas / set_tables / set_columns
MlSet(t, tier, key, data) ==
    /\ ml_pc[t] = "idle"
    /\ CanAcquireMeta(ml_lock, t)
    /\ mc_sets < MaxMetaSets
    /\ mc_sets' = mc_sets + 1
    /\ mc_databases' = IF tier = "databases"
                        THEN MetaSet(mc_databases, key, data, now) ELSE mc_databases
    /\ mc_schemas' = IF tier = "schemas"
                      THEN MetaSet(mc_schemas, key, data, now) ELSE mc_schemas
    /\ mc_tables' = IF tier = "tables"
                     THEN MetaSet(mc_tables, key, data, now) ELSE mc_tables
    /\ mc_columns' = IF tier = "columns"
                      THEN MetaSet(mc_columns, key, data, now) ELSE mc_columns
    /\ mc_ret' = McCall("set", tier, key, data)
    /\ UNCHANGED now
    /\ UNCHANGED metaLockVars
    /\ metaLockFrame

\* One statement of an invalidation: the thread moves on to pc.
MlGoto(t, pc) ==
    /\ ml_pc' = [ml_pc EXCEPT ![t] = pc]
    /\ mc_ret' = McNoCall
    /\ UNCHANGED <<now, mc_sets>>
    /\ metaLockFrame

\* The last statement of an invalidation: the lock is released and the
\* call returns.
MlRelease(t, ret) ==
    /\ ml_pc' = [ml_pc EXCEPT ![t] = "idle"]
    /\ ml_lock' = "free"
    /\ ml_local' = [ml_local EXCEPT ![t] = MlNoLocals]
    /\ mc_ret' = ret
    /\ UNCHANGED <<now, mc_sets>>
    /\ metaLockFrame

\* invalidate_database: with self._lock, prefix = f"{account}/{database}"
MlInvDbAcquire(t, account, database) ==
    /\ ml_pc[t] = "idle"
    /\ CanAcquireMeta(ml_lock, t)
    /\ ml_lock' = t
    /\ ml_local' = [ml_local EXCEPT
                       ![t] = [prefix |-> SchemasKey(account, database),
                               before |-> StoredEntries]]
    /\ MlGoto(t, "db_schemas")
    /\ UNCHANGED <<mc_databases, mc_schemas, mc_tables, mc_columns>>

\* self._schemas = {k: v ... if not k.startswith(prefix)}
MlInvDbSchemas(t) ==
    /\ ml_pc[t] = "db_schemas"
    /\ mc_schemas' = MetaWithoutPrefix(mc_schemas, ml_local[t].prefix)
    /\ MlGoto(t, "db_tables")
    /\ UNCHANGED <<ml_lock, ml_local, mc_databases, mc_tables, mc_columns>>

\* self._tables = {k: v ... if not k.startswith(prefix)}
MlInvDbTables(t) ==
    /\ ml_pc[t] = "db_tables"
    /\ mc_tables' = MetaWithoutPrefix(mc_tables, ml_local[t].prefix)
    /\ MlGoto(t, "db_columns")
    /\ UNCHANGED <<ml_lock, ml_local, mc_databases, mc_schemas, mc_columns>>

\* self._columns = {k: v ... if not k.startswith(prefix)}, end of the block
MlInvDbColumns(t) ==
    /\ ml_pc[t] = "db_columns"
    /\ mc_columns' = MetaWithoutPrefix(mc_columns, ml_local[t].prefix)
    /\ MlRelease(t, [McCall("invalidate_database", "none", ml_local[t].prefix, Miss)
                       EXCEPT !.removed = Cardinality(
                           {e \in ml_local[t].before :
                               e[1] # "databases" /\ StartsWith(e[2], ml_local[t].prefix)})])
    /\ UNCHANGED <<mc_databases, mc_schemas, mc_tables>>

\* invalidate_all: with self._lock
MlInvAllAcquire(t) ==
    /\ ml_pc[t] = "idle"
    /\ CanAcquireMeta(ml_lock, t)
    /\ ml_lock' = t
    /\ ml_local' = [ml_local EXCEPT
                       ![t] = [prefix |-> NoText, before |-> StoredEntries]]
    /\ MlGoto(t, "all_databases")
    /\ UNCHANGED <<mc_databases, mc_schemas, mc_tables, mc_columns>>

\* self._databases.clear()
MlInvAllDatabases(t) ==
    /\ ml_pc[t] = "all_databases"
    /\ mc_databases' = EmptyDict
    /\ MlGoto(t, "all_schemas")
    /\ UNCHANGED <<ml_lock, ml_local, mc_schemas, mc_tables, mc_columns>>

\* self._schemas.clear()
MlInvAllSchemas(t) ==
    /\ ml_pc[t] = "all_schemas"
    /\ mc_schemas' = EmptyDict
    /\ MlGoto(t, "all_tables")
    /\ UNCHANGED <<ml_lock, ml_local, mc_databases, mc_tables, mc_columns>>

\* self._tables.clear()
MlInvAllTables(t) ==
    /\ ml_pc[t] = "all_tables"
    /\ mc_tables' = EmptyDict
    /\ MlGoto(t, "all_columns")
    /\ UNCHANGED <<ml_lock, ml_local, mc_databases, mc_schemas, mc_columns>>

\* self._columns.clear(), end of the block
MlInvAllColumns(t) ==
    /\ ml_pc[t] = "all_columns"
    /\ mc_columns' = EmptyDict
    /\ MlRelease(t, McCall("invalidate_all", "none", NoText, Miss))
    /\ UNCHANGED <<mc_databases, mc_schemas, mc_tables>>

MlTick ==
    /\ Tick
    /\ mc_ret' = McNoCall
    /\ UNCHANGED <<mc_databases, mc_schemas, mc_tables, mc_columns, mc_sets>>
    /\ UNCHANGED metaLockVars
    /\ metaLockFrame

InitMetaLock ==
    /\ ml_lock = "free"
    /\ ml_pc = [t \in MetaThreads |-> "idle"]
    /\ ml_local = [t \in MetaThreads |-> MlNoLocals]

IdleMetaLock == InitMetaLock

NextMetaLock ==
    \/ \E t \in MetaThreads, tier \in Tiers : \E key \in TierKeys(tier) :
          MlGet(t, tier, key)
    \/ \E t \in MetaThreads, tier \in Tiers, data \in MetaData :
          \E key \in TierKeys(tier) : MlSet(t, tier, key, data)
    \/ \E t \in MetaThreads, a \in Accounts, d \in Databases : MlInvDbAcquire(t, a, d)
    \/ \E t \in MetaThreads : MlInvDbSchemas(t)
    \/ \E t \in MetaThreads : MlInvDbTables(t)
    \/ \E t \in MetaThreads : MlInvDbColumns(t)
    \/ \E t \in MetaThreads : MlInvAllAcquire(t)
    \/ \E t \in MetaThreads : MlInvAllDatabases(t)
    \/ \E t \in MetaThreads : MlInvAllSchemas(t)
    \/ \E t \in MetaThreads : MlInvAllTables(t)
    \/ \E t \in MetaThreads : MlInvAllColumns(t)
    \/ MlTick

---------------------------------------------------------------------------
(* SessionManager removals statement by statement.  Every removal runs     *)
(* _remove_session_unsafe with the lock held, so one manager call is under *)
(* way at a time; the call is followed through the pop and the close of    *)
(* each session it removes.                                                *)

removalFrame ==
    UNCHANGED <<cacheVars, expiryVars, execVars, metaVars, identVars, lockVars,
                metaLockVars, fetchVars,
                limiterVars>>

\* A manager call starts removing the sessions in ids.
RmStart(path, ids) ==
    /\ rm_pc' = IF ids = {} THEN "idle" ELSE "pop"
    /\ rm_path' = IF ids = {} THEN "none" ELSE path
    /\ rm_todo' = ids
    /\ rm_session' = None
    /\ sm_ret' = SmNoCall
    /\ UNCHANGED <<now, sm_created, sm_sweep, sm_removed, rm_inflight>>
    /\ removalFrame

\* create_session
RmCreateSession ==
    /\ rm_pc = "idle"
    /\ SmCreateSession
    /\ UNCHANGED removalVars

\* remove_session(session_id)
RmRemoveSession(sid) ==
    /\ rm_pc = "idle"
    /\ RmStart("remove_session", {sid})
    /\ UNCHANGED <<sm_sess, sm_sessions, sm_running, rm_refs>>

\* get_session(session_id): an absent id returns None, an idle-expired or
\* dead session is removed, a live one is touched and returned.
RmGetSession(sid) ==
    LET branch == GetSessionBranch(sm_sess, sm_sessions, sid, now)
    IN  /\ rm_pc = "idle"
        /\ branch = "ok" => sm_sess[sid].query_count < MaxQueryCount
        /\ RmStart("get_session", IF branch \in {"expired", "dead"} THEN {sid} ELSE {})
        /\ sm_sess' = IF branch = "ok" THEN [sm_sess EXCEPT ![sid] = Touch(sm_sess[sid], now)]
                      ELSE sm_sess
        /\ rm_refs' = IF branch = "ok" THEN rm_refs \cup {sid} ELSE rm_refs
        /\ UNCHANGED <<sm_sessions, sm_running>>

\* _cleanup_expired: the scan that builds the list expired.
RmSweep ==
    /\ rm_pc = "idle"
    /\ sm_running
    /\ RmStart("sweep", ExpiredIds(sm_sess, sm_sessions, now))
    /\ UNCHANGED <<sm_sess, sm_sessions, sm_running, rm_refs>>

\* shutdown: self._running = False, list(self._sessions.keys())
RmShutdown ==
    /\ rm_pc = "idle"
    /\ sm_running
    /\ sm_running' = FALSE
    /\ RmStart("shutdown", sm_sessions)
    /\ UNCHANGED <<sm_sess, sm_sessions, rm_refs>>

\* _remove_session_unsafe: session = self._sessions.pop(session_id, None)
RmPop ==
    LET sid == FirstKey(rm_todo)
    IN  /\ rm_pc = "pop"
        /\ rm_pc' = "close"
        /\ sm_sessions' = Pop(sm_sessions, sid)
        /\ rm_session' = IF sid \in sm_sessions THEN sid ELSE None
        /\ sm_ret' = SmNoCall
        /\ UNCHANGED <<now, sm_created, sm_sess, sm_running, sm_sweep, sm_removed,
                       rm_path, rm_todo, rm_refs, rm_inflight>>
        /\ removalFrame

\* _remove_session_unsafe: "if session: session.close(); return True",
\* "return False" otherwise; the caller goes on to its next id.
RmClose ==
    LET rest == rm_todo \ {FirstKey(rm_todo)}
    IN  /\ rm_pc = "close"
        /\ sm_sess' = IF rm_session # None
                      THEN [sm_sess EXCEPT ![rm_session] = Close(sm_sess[rm_session])]
                      ELSE sm_sess
        /\ rm_todo' = rest
        /\ rm_session' = None
        /\ rm_pc' = IF rest = {} THEN "idle" ELSE "pop"
        /\ rm_path' = IF rest = {} THEN "none" ELSE rm_path
        /\ sm_ret' = SmNoCall
        /\ UNCHANGED <<now, sm_created, sm_sessions, sm_running, sm_sweep, sm_removed,
                       rm_refs, rm_inflight>>
        /\ removalFrame

\* MdlhSessionContext.execute_query starts on the session that
\* get_session returned to the request; it runs outside the manager lock,
\* whatever the manager is doing.
RmQueryStart(sid) ==
    /\ sid \in rm_refs \ rm_inflight
    /\ rm_inflight' = rm_inflight \cup {sid}
    /\ sm_ret' = SmNoCall
    /\ UNCHANGED <<now, sm_created, sm_sess, sm_sessions, sm_running, sm_sweep,
                   sm_removed, rm_pc, rm_path, rm_todo, rm_session, rm_refs>>
    /\ removalFrame

\* The query ends, rows or error, and the request with it.
RmQueryEnd(sid) ==
    /\ sid \in rm_inflight
    /\ rm_inflight' = rm_inflight \ {sid}
    /\ rm_refs' = rm_refs \ {sid}
    /\ sm_ret' = SmNoCall
    /\ UNCHANGED <<now, sm_created, sm_sess, sm_sessions, sm_running, sm_sweep,
                   sm_removed, rm_pc, rm_path, rm_todo, rm_session>>
    /\ removalFrame

\* The network: the connection of a session stops answering.
RmConnDies(sid) ==
    /\ ConnDies(sid)
    /\ UNCHANGED removalVars

RmTick ==
    /\ rm_pc = "idle"
    /\ SmTick
    /\ UNCHANGED removalVars

InitRemoval ==
    /\ rm_pc = "idle"
    /\ rm_path = "none"
    /\ rm_todo = {}
    /\ rm_session = None
    /\ rm_refs = {}
    /\ rm_inflight = {}

IdleRemoval == InitRemoval

NextRemoval ==
    \/ RmCreateSession
    \/ \E sid \in SessionIds : RmRemoveSession(sid)
    \/ \E sid \in SessionIds : RmGetSession(sid)
    \/ RmSweep
    \/ RmShutdown
    \/ RmPop
    \/ RmClose
    \/ \E sid \in SessionIds : RmQueryStart(sid)
    \/ \E sid \in SessionIds : RmQueryEnd(sid)
    \/ \E sid \in SessionIds : RmConnDies(sid)
    \/ RmTick

---------------------------------------------------------------------------
(* The metadata operations of MdlhSessionContext: get_snowflake_databases, *)
(* get_snowflake_schemas, get_snowflake_tables, get_snowflake_columns and  *)
(* get_snowflake_table_preview, statement by statement around the calls of *)
(* execute_query.  A call of execute_query either returns rows or raises   *)
(* the error the executor gave up on.                                      *)

fetchFrame ==
    UNCHANGED <<cacheVars, sessionVars, expiryVars, execVars, identVars, lockVars,
                metaLockVars, removalVars,
                limiterVars>>

\* self.session.account of the session the operations run on.
FetchAccount == <<"a">>
\* The names the operations are called with.
FetchDatabases == {<<"d">>, <<"D">>, <<"1">>}
FetchSchemas == {<<"s">>}
FetchTables == {<<"t">>}
\* What the operations build from the rows of their queries.
FetchNames == "namesA"
TablesOnly == "tables"
TablesAndViews == "tables+views"

FtNoCall ==
    [op |-> "none", database |-> NoText, schema |-> NoText, table |-> NoText,
     include_views |-> FALSE, use_cache |-> FALSE]
FtNoResult == [kind |-> "none", value |-> "none", columns |-> "none"]
FtValue(v) == [kind |-> "value", value |-> v, columns |-> "none"]
FtError(e) == [kind |-> "error", value |-> e, columns |-> "none"]

\* The re.match tests an operation makes on its arguments.
FtValid(call) ==
    /\ call.op # "databases" => RegexMatch(call.database)
    /\ call.op \in {"tables", "columns", "preview"} => RegexMatch(call.schema)
    /\ call.op \in {"columns", "preview"} => RegexMatch(call.table)

\* The tier of the metadata cache an operation reads and writes.
FtTier(call) ==
    CASE call.op = "databases" -> "databases"
      [] call.op = "schemas" -> "schemas"
      [] call.op = "tables" -> "tables"
      [] OTHER -> "columns"

\* The key it uses, built from the upper-cased names.
FtKey(call) ==
    CASE call.op = "databases" -> FetchAccount
      [] call.op = "schemas" -> SchemasKey(FetchAccount, Upper(call.database))
      [] call.op = "tables" ->
            TablesKey(FetchAccount, Upper(call.database), Upper(call.schema))
      [] OTHER ->
            ColumnsKey(FetchAccount, Upper(call.database), Upper(call.schema),
                       Upper(call.table))

\* "if use_cache: cached = metadata_cache.get_X(...)"
FtCached(call) ==
    IF call.use_cache
    THEN MetaGet(TierDict(FtTier(call)), FtKey(call), now, TierTtl(FtTier(call)))
    ELSE Miss

\* "if use_cache: metadata_cache.set_X(..., data)"
FtStore(call, data) ==
    LET tier == IF call.use_cache THEN FtTier(call) ELSE "none"
        key == FtKey(call)
    IN  /\ mc_databases' = IF tier = "databases"
                            THEN MetaSet(mc_databases, key, data, now) ELSE mc_databases
        /\ mc_schemas' = IF tier = "schemas"
                          THEN MetaSet(mc_schemas, key, data, now) ELSE mc_schemas
        /\ mc_tables' = IF tier = "tables"
                         THEN MetaSet(mc_tables, key, data, now) ELSE mc_tables
        /\ mc_columns' = IF tier = "columns"
                          THEN MetaSet(mc_columns, key, data, now) ELSE mc_columns

FtKeepCache == UNCHANGED <<mc_databases, mc_schemas, mc_tables, mc_columns>>

\* An operation up to its first query: the tests on the names, then the
\* cache lookup; a hit is returned (the preview goes on to its own query
\* with the cached columns), a miss leads to the query.
FtBegin(call) ==
    LET cached == FtCached(call)
    IN  /\ ft_call' = call
        /\ ft_gave_up' = FALSE
        /\ ft_reads' = IF FtValid(call) /\ call.use_cache THEN 1 ELSE 0
        /\ ft_queries' = 0
        /\ ft_stale' = FALSE
        /\ IF ~FtValid(call)
           THEN /\ ft_pc' = "raised"
                /\ ft_result' = FtError("ValueError")
                /\ ft_partial' = "none"
           ELSE IF cached = Miss
           THEN /\ ft_pc' = "query"
                /\ ft_result' = FtNoResult
                /\ ft_partial' = "none"
           ELSE IF call.op = "preview"
           THEN /\ ft_pc' = "preview"
                /\ ft_result' = FtNoResult
                /\ ft_partial' = cached
           ELSE /\ ft_pc' = "returned"
                /\ ft_result' = FtValue(cached)
                /\ ft_partial' = "none"
        /\ FtKeepCache
        /\ UNCHANGED <<now, mc_sets, mc_ret>>
        /\ fetchFrame

\* get_snowflake_databases(use_cache)
FtGetDatabases(use_cache) ==
    /\ ft_pc \in {"idle", "returned", "raised"}
    /\ FtBegin([FtNoCall EXCEPT !.op = "databases", !.use_cache = use_cache])

\* get_snowflake_schemas(database, use_cache)
FtGetSchemas(database, use_cache) ==
    /\ ft_pc \in {"idle", "returned", "raised"}
    /\ FtBegin([FtNoCall EXCEPT !.op = "schemas", !.database = database,
                                !.use_cache = use_cache])

\* get_snowflake_tables(database, schema, include_views, use_cache)
FtGetTables(database, schema, include_views, use_cache) ==
    /\ ft_pc \in {"idle", "returned", "raised"}
    /\ FtBegin([FtNoCall EXCEPT !.op = "tables", !.database = database,
                                !.schema = schema, !.include_views = include_views,
                                !.use_cache = use_cache])

\* get_snowflake_columns(database, schema, table, use_cache)
FtGetColumns(database, schema, table, use_cache) ==
    /\ ft_pc \in {"idle", "returned", "raised"}
    /\ FtBegin([FtNoCall EXCEPT !.op = "columns", !.database = database,
                                !.schema = schema, !.table = table,
                                !.use_cache = use_cache])

\* get_snowflake_table_preview(database, schema, table): it calls
\* get_snowflake_columns with use_cache left at True.
FtGetTablePreview(database, schema, table) ==
    /\ ft_pc \in {"idle", "returned", "raised"}
    /\ FtBegin([FtNoCall EXCEPT !.op = "preview", !.database = database,
                                !.schema = schema, !.table = table, !.use_cache = TRUE])

\* The first query of the operation returns rows.  get_snowflake_tables
\* with include_views goes on to SHOW VIEWS, the preview stores the
\* columns and goes on to SELECT *, the others store and return.
FtQueryOk ==
    /\ ft_pc = "query"
    /\ IF ft_call.op = "tables" /\ ft_call.include_views
       THEN /\ ft_pc' = "views"
            /\ ft_partial' = TablesOnly
            /\ ft_result' = FtNoResult
            /\ FtKeepCache
       ELSE IF ft_call.op = "preview"
       THEN /\ ft_pc' = "preview"
            /\ ft_partial' = FetchNames
            /\ ft_result' = FtNoResult
            /\ FtStore(ft_call, FetchNames)
       ELSE /\ ft_pc' = "returned"
            /\ ft_partial' = "none"
            /\ ft_result' = FtValue(IF ft_call.op = "tables" THEN TablesOnly ELSE FetchNames)
            /\ FtStore(ft_call, IF ft_call.op = "tables" THEN TablesOnly ELSE FetchNames)
    /\ UNCHANGED <<now, mc_sets, mc_ret, ft_call, ft_gave_up>>
    /\ ft_queries' = ft_queries + 1
    /\ UNCHANGED <<ft_reads, ft_stale>>
    /\ fetchFrame

\* The first query of the operation fails: execute_query raises and the
\* operation lets the error through.
FtQueryFail ==
    /\ ft_pc = "query"
    /\ ft_pc' = "raised"
    /\ ft_result' = FtError("QueryError")
    /\ ft_gave_up' = TRUE
    /\ FtKeepCache
    /\ UNCHANGED <<now, mc_sets, mc_ret, ft_call, ft_partial>>
    /\ ft_queries' = ft_queries + 1
    /\ UNCHANGED <<ft_reads, ft_stale>>
    /\ fetchFrame

\* get_snowflake_tables: SHOW VIEWS returns rows, the views are appended.
FtViewsOk ==
    /\ ft_pc = "views"
    /\ ft_pc' = "returned"
    /\ ft_partial' = "none"
    /\ ft_result' = FtValue(TablesAndViews)
    /\ FtStore(ft_call, TablesAndViews)
    /\ UNCHANGED <<now, mc_sets, mc_ret, ft_call, ft_gave_up>>
    /\ ft_queries' = ft_queries + 1
    /\ UNCHANGED <<ft_reads, ft_stale>>
    /\ fetchFrame

\* get_snowflake_tables: SHOW VIEWS fails; "except Exception as e:
\* logger.warning(...)", and the operation goes on with the tables alone.
FtViewsFail ==
    /\ ft_pc = "views"
    /\ ft_pc' = "returned"
    /\ ft_gave_up' = TRUE
    /\ ft_partial' = "none"
    /\ ft_result' = FtValue(ft_partial)
    /\ FtStore(ft_call, ft_partial)
    /\ UNCHANGED <<now, mc_sets, mc_ret, ft_call>>
    /\ ft_queries' = ft_queries + 1
    /\ UNCHANGED <<ft_reads, ft_stale>>
    /\ fetchFrame

\* get_snowflake_table_preview: SELECT * ... LIMIT returns rows.
FtPreviewOk ==
    /\ ft_pc = "preview"
    /\ ft_pc' = "returned"
    /\ ft_result' = [kind |-> "value", value |-> FetchNames, columns |-> ft_partial]
    /\ ft_partial' = "none"
    /\ FtKeepCache
    /\ UNCHANGED <<now, mc_sets, mc_ret, ft_call, ft_gave_up>>
    /\ ft_queries' = ft_queries + 1
    /\ UNCHANGED <<ft_reads, ft_stale>>
    /\ fetchFrame

\* get_snowflake_table_preview: SELECT * ... LIMIT fails.
FtPreviewFail ==
    /\ ft_pc = "preview"
    /\ ft_pc' = "raised"
    /\ ft_result' = FtError("QueryError")
    /\ ft_gave_up' = TRUE
    /\ ft_partial' = "none"
    /\ FtKeepCache
    /\ UNCHANGED <<now, mc_sets, mc_ret, ft_call>>
    /\ ft_queries' = ft_queries + 1
    /\ UNCHANGED <<ft_reads, ft_stale>>
    /\ fetchFrame

\* Another request calls metadata_cache.invalidate_all() while the
\* operation is under way or between operations.
FtInvalidateAll ==
    /\ mc_databases' = EmptyDict
    /\ mc_schemas' = EmptyDict
    /\ mc_tables' = EmptyDict
    /\ mc_columns' = EmptyDict
    /\ ft_stale' = (ft_stale \/ (ft_pc = "views" /\ ft_call.use_cache))
    /\ UNCHANGED <<now, mc_sets, mc_ret, ft_pc, ft_call, ft_partial, ft_result,
                   ft_gave_up, ft_reads, ft_queries>>
    /\ fetchFrame

\* Another request calls metadata_cache.invalidate_database(account,
\* database).
FtInvalidateDatabase(database) ==
    LET prefix == SchemasKey(FetchAccount, database)
    IN  /\ mc_schemas' = MetaWithoutPrefix(mc_schemas, prefix)
        /\ mc_tables' = MetaWithoutPrefix(mc_tables, prefix)
        /\ mc_columns' = MetaWithoutPrefix(mc_columns, prefix)
        /\ ft_stale' = (ft_stale \/ (/\ ft_pc = "views"
                                      /\ ft_call.use_cache
                                      /\ StartsWith(FtKey(ft_call), prefix)))
        /\ UNCHANGED <<now, mc_databases, mc_sets, mc_ret, ft_pc, ft_call, ft_partial,
                       ft_result, ft_gave_up, ft_reads, ft_queries>>
        /\ fetchFrame

\* Time passes between operations.
FtTick ==
    /\ ft_pc \in {"idle", "returned", "raised"}
    /\ Tick
    /\ FtKeepCache
    /\ UNCHANGED <<mc_sets, mc_ret>>
    /\ UNCHANGED fetchVars
    /\ fetchFrame

InitFetch ==
    /\ ft_pc = "idle"
    /\ ft_call = FtNoCall
    /\ ft_partial = "none"
    /\ ft_result = FtNoResult
    /\ ft_gave_up = FALSE
    /\ ft_reads = 0
    /\ ft_queries = 0
    /\ ft_stale = FALSE

IdleFetch == InitFetch

NextFetch ==
    \/ \E uc \in BOOLEAN : FtGetDatabases(uc)
    \/ \E d \in FetchDatabases, uc \in BOOLEAN : FtGetSchemas(d, uc)
    \/ \E d \in FetchDatabases, sc \in FetchSchemas, iv \in BOOLEAN, uc \in BOOLEAN :
          FtGetTables(d, sc, iv, uc)
    \/ \E d \in FetchDatabases, sc \in FetchSchemas, t \in FetchTables, uc \in BOOLEAN :
          FtGetColumns(d, sc, t, uc)
    \/ \E d \in FetchDatabases, sc \in FetchSchemas, t \in FetchTables :
          FtGetTablePreview(d, sc, t)
    \/ FtQueryOk
    \/ FtQueryFail
    \/ FtViewsOk
    \/ FtViewsFail
    \/ FtPreviewOk
    \/ FtPreviewFail
    \/ FtInvalidateAll
    \/ \E d \in Databases : FtInvalidateDatabase(d)
    \/ FtTick

---------------------------------------------------------------------------
(* RateLimiter.is_allowed under concurrent callers.  A call reads the      *)
(* clock, then enters "with self._lock:"; the with-block runs as one step, *)
(* since every access to _attempts is made inside it.                      *)

limiterFrame ==
    UNCHANGED <<cacheVars, sessionVars, expiryVars, execVars, metaVars, identVars,
                lockVars, metaLockVars, removalVars, fetchVars>>

ClientIps == {"ip1", "ip2"}
LimiterThreads == {"r1", "r2"}

RlNoLocals == [ip |-> "none", now |-> 0]
RlNoCall ==
    [op |-> "none", thread |-> "none", ip |-> "none", allowed |-> FALSE,
     retry_after |-> 0, now |-> 0, before |-> <<>>]

\* "now - t < self._window_seconds".
InWindow(t, at) == at - t < WindowSeconds

\* The list comprehension of is_allowed: the recorded times still inside
\* the window that ends at the caller's now, in their order.
RECURSIVE Recent(_, _)
Recent(times, at) ==
    IF times = <<>> THEN <<>>
    ELSE IF InWindow(Head(times), at)
         THEN <<Head(times)>> \o Recent(Tail(times), at)
         ELSE Recent(Tail(times), at)

\* "int(self._window_seconds - (now - oldest)) + 1"; the clock of the
\* model is an integer, so int() changes nothing.
SecondsUntilReset(at, oldest) == (WindowSeconds - (at - oldest)) + 1

\* is_allowed: "now = time.time()", before the lock is taken.
RlReadClock(t, ip) ==
    /\ rl_pc[t] = "idle"
    /\ rl_calls < MaxLimiterCalls
    /\ rl_calls' = rl_calls + 1
    /\ rl_pc' = [rl_pc EXCEPT ![t] = "lock"]
    /\ rl_local' = [rl_local EXCEPT ![t] = [ip |-> ip, now |-> now]]
    /\ rl_ret' = RlNoCall
    /\ UNCHANGED <<now, rl_attempts, rl_log>>
    /\ limiterFrame

\* is_allowed: the with-block.  The list of the IP is pruned, then the call
\* is denied with the seconds until reset, or recorded and allowed.
RlDecide(t) ==
    LET ip == rl_local[t].ip
        at == rl_local[t].now
        recent == Recent(rl_attempts[ip], at)
        allowed == ~(Len(recent) >= MaxAttempts)
    IN  /\ rl_pc[t] = "lock"
        /\ rl_attempts' = [rl_attempts EXCEPT
                             ![ip] = IF allowed THEN Append(recent, at) ELSE recent]
        /\ rl_ret' = [op |-> "is_allowed", thread |-> t, ip |-> ip,
                      allowed |-> allowed,
                      retry_after |-> IF allowed THEN 0
                                      ELSE SecondsUntilReset(at, recent[1]),
                      now |-> at, before |-> rl_attempts[ip]]
        /\ rl_log' = IF allowed THEN Append(rl_log, [ip |-> ip, start |-> at, at |-> now])
                     ELSE rl_log
        /\ rl_pc' = [rl_pc EXCEPT ![t] = "idle"]
        /\ rl_local' = [rl_local EXCEPT ![t] = RlNoLocals]
        /\ UNCHANGED <<now, rl_calls>>
        /\ limiterFrame

\* Time passes, also between the clock read and the lock.
RlTick ==
    /\ Tick
    /\ rl_ret' = RlNoCall
    /\ UNCHANGED <<rl_attempts, rl_pc, rl_local, rl_log, rl_calls>>
    /\ limiterFrame

InitLimiter ==
    /\ rl_attempts = [ip \in ClientIps |-> <<>>]
    /\ rl_pc = [t \in LimiterThreads |-> "idle"]
    /\ rl_local = [t \in LimiterThreads |-> RlNoLocals]
    /\ rl_ret = RlNoCall
    /\ rl_log = <<>>
    /\ rl_calls = 0

IdleLimiter == InitLimiter

NextLimiter ==
    \/ \E t \in LimiterThreads, ip \in ClientIps : RlReadClock(t, ip)
    \/ \E t \in LimiterThreads : RlDecide(t)
    \/ RlTick

---------------------------------------------------------------------------
(* The specifications.  Each one runs one component and leaves the state   *)
(* of the others alone.                                                    *)

CacheInit ==
    now = 0 /\ InitCache /\ IdleSession /\ IdleExpiry /\ IdleExec /\ IdleMeta
            /\ IdleIdent /\ IdleLock /\ IdleMetaLock /\ IdleRemoval /\ IdleFetch /\ IdleLimiter
SpecCache == CacheInit /\ [][NextCache]_vars

CacheWideInit ==
    now = 0 /\ InitCacheWide /\ IdleSession /\ IdleExpiry /\ IdleExec /\ IdleMeta
            /\ IdleIdent /\ IdleLock /\ IdleMetaLock /\ IdleRemoval /\ IdleFetch /\ IdleLimiter
SpecCacheWide == CacheWideInit /\ [][NextCache]_vars

SessionInit ==
    now = 0 /\ InitSession /\ IdleCache /\ IdleExpiry /\ IdleExec /\ IdleMeta
            /\ IdleIdent /\ IdleLock /\ IdleMetaLock /\ IdleRemoval /\ IdleFetch /\ IdleLimiter
SpecSession == SessionInit /\ [][NextSession]_vars

ExpiryInit ==
    now = 0 /\ InitExpiry /\ IdleCache /\ IdleSession /\ IdleExec /\ IdleMeta
            /\ IdleIdent /\ IdleLock /\ IdleMetaLock /\ IdleRemoval /\ IdleFetch /\ IdleLimiter
NextExpiry ==
    \/ ExTouch
    \/ ExIsExpired
    \/ ExTick
SpecExpiry == ExpiryInit /\ [][NextExpiry]_vars

ExecInit ==
    now = 0 /\ InitExec /\ IdleCache /\ IdleSession /\ IdleExpiry /\ IdleMeta
            /\ IdleIdent /\ IdleLock /\ IdleMetaLock /\ IdleRemoval /\ IdleFetch /\ IdleLimiter
NextExec ==
    \/ EqRequest
    \/ EqTick
    \/ \E q \in ExecQueries, w \in Warehouses : EqCall(q, w)
    \/ \E rows \in ExecRows : EqAttemptOk(rows)
    \/ \E msg \in ErrorMessages : EqAttemptFail(msg)
    \/ \E closes \in BOOLEAN : EqExceptClose(closes)
    \/ EqExcept
    \/ \E ok \in BOOLEAN : EqResume(ok)
    \/ \E alive \in BOOLEAN : EqVerify(alive)
SpecExec == ExecInit /\ [][NextExec]_vars

MetaInit ==
    now = 0 /\ InitMeta /\ IdleCache /\ IdleSession /\ IdleExpiry /\ IdleExec
            /\ IdleIdent /\ IdleLock /\ IdleMetaLock /\ IdleRemoval /\ IdleFetch /\ IdleLimiter
SpecMeta == MetaInit /\ [][NextMeta]_vars

IdentInit ==
    now = 0 /\ InitIdent /\ IdleCache /\ IdleSession /\ IdleExpiry /\ IdleExec
            /\ IdleMeta /\ IdleLock /\ IdleMetaLock /\ IdleRemoval /\ IdleFetch /\ IdleLimiter
SpecIdent == IdentInit /\ [][NextIdent]_vars

LockInit ==
    now = 0 /\ InitLock /\ IdleCache /\ IdleSession /\ IdleExpiry /\ IdleExec
            /\ IdleMeta /\ IdleIdent /\ IdleMetaLock /\ IdleRemoval /\ IdleFetch /\ IdleLimiter
SpecLock == LockInit /\ [][NextLock]_vars

\* The cleanup thread is scheduled fairly: each step of its loop is taken
\* when it stays possible, and it gets the lock when the lock is free again
\* and again.  A request thread inside a with-block runs it to the end.
LockFairness ==
    /\ WF_vars(LkSweepCheck)
    /\ SF_vars(LkSweepAcquire)
    /\ WF_vars(LkSweepScan)
    /\ WF_vars(LkSweepEvict)
    /\ \A t \in RequestThreads :
          WF_vars(LkGetLookup(t) \/ LkGetProbe(t) \/ LkShutdownRemove(t))

SpecLockFair == SpecLock /\ LockFairness

MetaLockInit ==
    now = 0 /\ InitMeta /\ InitMetaLock /\ IdleCache /\ IdleSession /\ IdleExpiry
            /\ IdleExec /\ IdleIdent /\ IdleLock /\ IdleRemoval /\ IdleFetch /\ IdleLimiter
SpecMetaLock == MetaLockInit /\ [][NextMetaLock]_vars

RemovalInit ==
    now = 0 /\ InitSession /\ InitRemoval /\ IdleCache /\ IdleExpiry /\ IdleExec
            /\ IdleMeta /\ IdleIdent /\ IdleLock /\ IdleMetaLock /\ IdleFetch /\ IdleLimiter
SpecRemoval == RemovalInit /\ [][NextRemoval]_vars

FetchInit ==
    now = 0 /\ InitMeta /\ InitFetch /\ IdleCache /\ IdleSession /\ IdleExpiry
            /\ IdleExec /\ IdleIdent /\ IdleLock /\ IdleMetaLock /\ IdleRemoval /\ IdleLimiter
SpecFetch == FetchInit /\ [][NextFetch]_vars

LimiterInit ==
    now = 0 /\ InitLimiter /\ IdleCache /\ IdleSession /\ IdleExpiry /\ IdleExec
            /\ IdleMeta /\ IdleIdent /\ IdleLock /\ IdleMetaLock /\ IdleRemoval
            /\ IdleFetch
SpecLimiter == LimiterInit /\ [][NextLimiter]_vars

---------------------------------------------------------------------------
(* Claims about QueryResultCache, checked under SpecCache.                 *)

\* A step that is a call of get: the only calls that count a hit or a miss.
IsGetStep == qc_hits' + qc_misses' = qc_hits + qc_misses + 1

C2_LruEviction ==
    (qc_pure /\ Len(qc_recency) = MaxSize + 1)
    => /\ Len(qc_cache) = MaxSize
       /\ Len(qc_victim) = 1
       /\ Keys(qc_cache) = SeqSet(qc_recency) \ {qc_victim[1]}

\* The scenario set q1; set q2; get q1; set q3: the victim is not the key
\* inserted first, which a get refreshed.
C2_Witness ==
    /\ qc_pure
    /\ Len(qc_recency) = MaxSize + 1
    /\ qc_hits > 0
    /\ Len(qc_cache) = MaxSize
    /\ qc_cache[1].key \notin SeqSet(qc_victim)
    /\ \E i \in 1..Len(qc_cache) :
          qc_cache[i].cached_at < qc_cache[1].cached_at

\* C3: lazy expiry.  (a) A get of a stored entry whose age strictly exceeds
\* ttl returns miss and counts a miss.  (b) A set stores its rows under the
\* key.  (c) A get that follows a set made right after such an expired
\* miss, within ttl of that set, is a counted hit returning the new rows.
C3_LazyExpiry ==
    [][/\ \A p \in Pairs :
            (/\ IsGetStep /\ qc_ret'.pair = p
             /\ PairKey(p) \in Keys(qc_cache)
             /\ now - qc_cache[KeyIndex(qc_cache, PairKey(p))].cached_at > Ttl)
            => (qc_ret'.result = Miss /\ qc_misses' = qc_misses + 1
                /\ qc_hits' = qc_hits)
       /\ qc_ret'.op = "set"
            => \E i \in 1..Len(qc_cache') :
                  /\ qc_cache'[i].key = PairKey(qc_ret'.pair)
                  /\ qc_cache'[i].data = qc_ret'.result
       /\ \A p \in Pairs :
            (/\ IsGetStep /\ qc_ret'.pair = p
             /\ p \in DOMAIN qc_written /\ qc_written[p].afterExpiry
             /\ now - qc_written[p].at <= Ttl)
            => (qc_ret'.result = qc_written[p].rows /\ qc_hits' = qc_hits + 1)
      ]_vars

\* An expired miss, then a set of the same pair, then a hit on the new rows.
C3_Witness ==
    /\ qc_ret.op = "get"
    /\ qc_ret.pair \in DOMAIN qc_written
    /\ qc_written[qc_ret.pair].afterExpiry
    /\ qc_ret.result = qc_written[qc_ret.pair].rows
    /\ qc_hits = 1 /\ qc_misses = 1

\* C23: query-cache expiry is lazy.  A get that finds its entry older
\* than the TTL returns a miss and leaves the entry stored: the cached keys
\* and the size reported by get_stats are as before the get.
C23_ExpiredEntryStaysStored ==
    [][(IsGetStep /\ qc_ret'.expired) =>
          /\ qc_ret'.result = Miss
          /\ Keys(qc_cache') = Keys(qc_cache)
          /\ Len(qc_cache') = Len(qc_cache)
      ]_vars

\* C28: capacity invariant.  After any sequence of get, set and invalidate
\* calls (each runs under the cache lock, so calls do not overlap) the
\* number of stored entries is between 0 and maxsize, and no key is stored
\* twice.
C28_CapacityInvariant ==
    /\ qc_maxsize >= 1
    /\ QcGetStats.size >= 0
    /\ QcGetStats.size <= qc_maxsize
    /\ Cardinality(Keys(qc_cache)) = Len(qc_cache)

\* A set on a full cache evicted an entry and the cache is full again.
C28_Witness ==
    /\ qc_ret.op = "set"
    /\ Len(qc_cache) = qc_maxsize
    /\ qc_victim # <<>>
    /\ qc_victim[1] \notin Keys(qc_cache)

\* C29: an overwriting set counts as a touch.  After set on a key that is
\* already present, that key is the most recently used entry, the last one
\* of the eviction order.
C29_OverwriteIsTouch ==
    [][(/\ qc_ret'.op = "set"
        /\ qc_ret' # qc_ret \/ qc_cache' # qc_cache
        /\ PairKey(qc_ret'.pair) \in Keys(qc_cache))
       => qc_cache'[Len(qc_cache')].key = PairKey(qc_ret'.pair)
      ]_vars

\* C30: an overwriting set leaves the other keys alone.  A set on a key
\* that is already present replaces the rows and the timestamp of that
\* entry and removes no entry, also when the cache is full.
C30_OverwriteKeepsKeys ==
    [][(/\ qc_ret'.op = "set"
        /\ qc_ret' # qc_ret \/ qc_cache' # qc_cache
        /\ PairKey(qc_ret'.pair) \in Keys(qc_cache))
       => /\ Keys(qc_cache') = Keys(qc_cache)
          /\ \E i \in 1..Len(qc_cache') :
                /\ qc_cache'[i].key = PairKey(qc_ret'.pair)
                /\ qc_cache'[i].data = qc_ret'.result
                /\ qc_cache'[i].cached_at = now
      ]_vars

---------------------------------------------------------------------------
(* Claims about SessionManager, checked under SpecSession.  A step with    *)
(* sm_ret'.op = "get_session" is a call of get_session(sm_ret'.sid): every *)
(* other step sets another op.                                             *)

\* C4: dead sessions are never returned.  A session that get_session(sid)
\* returns was registered under sid, not idle-expired and alive at the
\* call, was probed, and is touched; an absent id, an expired session and
\* a failed probe give absent; an expired session is evicted and closed
\* without being probed.
C4_NoDeadSession ==
    [][\A sid \in SessionIds :
        (sm_ret'.op = "get_session" /\ sm_ret'.sid = sid) =>
            LET registered == sid \in sm_sessions
                expired == registered /\ now - sm_sess[sid].last_used > MaxIdle
                alive == registered /\ sm_sess[sid].conn = "live"
            IN  /\ sm_ret'.result # None =>
                      /\ sm_ret'.result = sid
                      /\ registered /\ ~expired /\ alive
                      /\ sm_ret'.probed
                      /\ sid \in sm_sessions'
                      /\ sm_sess'[sid].conn = "live"
                      /\ sm_sess'[sid].last_used = now
                      /\ sm_sess'[sid].query_count = sm_sess[sid].query_count + 1
                /\ (~registered \/ expired \/ ~alive) => sm_ret'.result = None
                /\ expired =>
                      /\ ~sm_ret'.probed
                      /\ sid \notin sm_sessions'
                      /\ sm_sess'[sid].conn = "closed"
      ]_vars

\* get_session returned a live session, touched at a later time than its
\* creation, after another session had been closed.
C4_Witness ==
    /\ sm_ret.op = "get_session"
    /\ sm_ret.result # None
    /\ sm_sess[sm_ret.result].last_used = now
    /\ now > 0
    /\ \E other \in DOMAIN sm_sess : sm_sess[other].conn = "closed"

\* C5: get_session(sid) on a registered, non-expired session whose probe
\* fails returns absent, closes the connection and removes the id: the
\* active_sessions count drops by exactly one and every other registered
\* session stays registered and unchanged.
C5_FailedProbeEvicts ==
    [][\A sid \in SessionIds :
        (/\ sm_ret'.op = "get_session" /\ sm_ret'.sid = sid
         /\ sid \in sm_sessions
         /\ now - sm_sess[sid].last_used <= MaxIdle
         /\ sm_sess[sid].conn # "live")
        => /\ sm_ret'.result = None
           /\ sm_sess'[sid].conn = "closed"
           /\ sid \notin sm_sessions'
           /\ ActiveSessions(sm_sessions') = ActiveSessions(sm_sessions) - 1
           /\ \A other \in sm_sessions \ {sid} :
                other \in sm_sessions' /\ sm_sess'[other] = sm_sess[other]
      ]_vars

\* A failed probe evicted one session while another one stayed registered.
C5_Witness ==
    /\ sm_ret.op = "get_session"
    /\ sm_ret.result = None
    /\ sm_ret.probed
    /\ sm_sess[sm_ret.sid].conn = "closed"
    /\ sm_sessions # {}

\* C6: remove_session is idempotent.  On a registered id it returns True,
\* closes the connection and removes the entry; on an id that is not
\* registered (never created, or removed before) it returns False and
\* changes nothing; an id once removed is never registered again.
C6_RemoveIdempotent ==
    [][/\ \A sid \in SessionIds :
            (sm_ret'.op = "remove_session" /\ sm_ret'.sid = sid) =>
                IF sid \in sm_sessions
                THEN /\ sm_ret'.removed
                     /\ sm_sessions' = sm_sessions \ {sid}
                     /\ sm_sess'[sid].conn = "closed"
                ELSE /\ ~sm_ret'.removed
                     /\ UNCHANGED <<sm_sessions, sm_sess>>
       /\ \A sid \in sm_removed : sid \notin sm_sessions /\ sid \notin sm_sessions'
      ]_vars

\* A second remove_session of the same id returned False.
C6_Witness ==
    /\ sm_ret.op = "remove_session"
    /\ ~sm_ret.removed
    /\ sm_ret.sid \in sm_removed

\* C17: one background sweep evicts exactly the idle-expired sessions.
\* Every registered session that is expired at the scan is removed and
\* closed; every other registered session stays registered and unmodified,
\* a dead connection included; the sweep registers nothing and runs no
\* liveness probe.
C17_SweepEvictsExpired ==
    [][sm_ret'.op = "sweep" =>
          /\ \A sid \in sm_sessions :
                IF now - sm_sess[sid].last_used > MaxIdle
                THEN sid \notin sm_sessions' /\ sm_sess'[sid].conn = "closed"
                ELSE sid \in sm_sessions' /\ sm_sess'[sid] = sm_sess[sid]
          /\ sm_sessions' \subseteq sm_sessions
          /\ ~sm_ret'.probed
      ]_vars

\* A sweep closed an expired session and left a registered session whose
\* connection is dead.
C17_Witness ==
    /\ sm_ret.op = "sweep"
    /\ sm_ret.removed
    /\ \E sid \in sm_sessions : sm_sess[sid].conn = "dead"
    /\ \E sid \in DOMAIN sm_sess : sm_sess[sid].conn = "closed"

\* C19: fallback session selection.  When a request names no session and
\* the registry holds a session that is not expired and whose probe
\* succeeds, require_mdlh_connection resolves to a live session and does
\* not fail with the 503 error.
C19_FallbackFindsLiveSession ==
    [][(/\ sm_ret'.op = "require_mdlh_connection"
        /\ sm_ret'.sid = None
        /\ \E sid \in sm_sessions :
              /\ now - sm_sess[sid].last_used <= MaxIdle
              /\ sm_sess[sid].conn = "live")
       => /\ sm_ret'.result # None
          /\ sm_ret'.result \in sm_sessions'
          /\ sm_sess'[sm_ret'.result].conn = "live"
      ]_vars

---------------------------------------------------------------------------
(* The claim about Session.is_expired, checked under SpecExpiry.           *)

\* C7: is_expired(max_idle) is false while the idle time is at most
\* max_idle (so right after touch(), and at equality) and true once the
\* idle time strictly exceeds max_idle.
C7_IsExpiredBoundary ==
    ex_ret.op = "is_expired" =>
        LET idle == ex_now - ex_session.last_used
        IN  /\ idle <= ex_max_idle => ex_ret.result = FALSE
            /\ idle > ex_max_idle => ex_ret.result = TRUE

\* A touched session, idle for exactly max_idle = 30 minutes: not expired.
C7_Witness ==
    /\ ex_ret.op = "is_expired"
    /\ ex_max_idle = 30
    /\ ex_session.query_count > 0
    /\ ex_now - ex_session.last_used = 30
    /\ ex_ret.result = FALSE

---------------------------------------------------------------------------
(* Claims about execute_query, checked under SpecExec.                     *)

\* Messages that name a suspended warehouse.
SuspendedMessages == {MsgSuspended, MsgSuspendedConnection}

\* C8: retry budget.  One call makes at most MAX_RETRIES + 1 = 3 query
\* attempts; when the third attempt fails the error is raised to the
\* caller and no resume command or liveness probe follows it.
C8_RetryBudget ==
    [][/\ eq_attempts' <= MAX_RETRIES + 1
       /\ eq_resumes' + eq_probes' <= MAX_RETRIES
       /\ (eq_pc = "except" /\ eq_attempts = MAX_RETRIES + 1) =>
             /\ eq_pc' = "raised"
             /\ eq_result' = Raised(eq_last_error)
             /\ UNCHANGED <<eq_resumes, eq_probes, eq_attempts>>
      ]_vars

\* A third attempt failed and its error was raised.
C8_Witness ==
    /\ eq_pc = "raised"
    /\ eq_attempts = MAX_RETRIES + 1
    /\ eq_resumes + eq_probes = MAX_RETRIES
    /\ eq_result = Raised(eq_last_error)

\* C9: resume and retry.  When an attempt fails with a warehouse-suspended
\* error and retry budget remains, the executor goes on to resume the
\* warehouse; for a session that names a warehouse the resume command is
\* issued and, if it succeeds, the same query is attempted again with one
\* retry consumed; an attempt that succeeds returns its rows.
C9_ResumeAndRetry ==
    [][/\ (/\ eq_pc = "except"
           /\ eq_last_error \in SuspendedMessages
           /\ eq_attempts <= MAX_RETRIES) => eq_pc' = "resume"
       /\ (eq_pc = "resume" /\ eq_warehouse # NoText) =>
             /\ eq_resumes' = eq_resumes + 1
             /\ eq_resume_ok' =>
                   /\ eq_pc' = "attempt"
                   /\ eq_query' = eq_query
                   /\ eq_attempt' = eq_attempt + 1
             /\ ~eq_resume_ok' => eq_pc' = "raised"
       /\ (eq_pc = "attempt" /\ eq_pc' = "returned") =>
             /\ eq_executed' = eq_query
             /\ eq_result'.kind = "rows"
             /\ eq_attempts' = eq_attempts + 1
      ]_vars

\* "Warehouse MYWH is suspended.", one resume, and the second attempt
\* returned rows.
C9_Witness ==
    /\ eq_pc = "returned"
    /\ eq_last_error = MsgSuspended
    /\ eq_attempts = 2
    /\ eq_resumes = 1
    /\ eq_probes = 0
    /\ eq_result.kind = "rows"

\* C10: within one execute_query call the resume command is issued at most
\* once.
C10_ResumeAtMostOnce == eq_resumes <= 1

\* Messages of a transient connectivity failure that name no warehouse.
TransientMessages == {MsgConnection}

PlainMessages == {MsgSyntax}

\* C12: an error that matches neither kind of pattern is never retried.  At
\* whichever attempt it occurs the except clause raises that same error,
\* with no resume command, no liveness probe and no further attempt.
C12_NonRetryableFatal ==
    [][(eq_pc = "except" /\ eq_last_error \in PlainMessages) =>
          /\ eq_pc' = "raised"
          /\ eq_result' = Raised(eq_last_error)
          /\ eq_last_error' = eq_last_error
          /\ UNCHANGED <<eq_resumes, eq_probes, eq_attempts>>
      ]_vars

\* "SQL compilation error" at the second attempt, after one retry, was
\* raised at once.
C12_Witness ==
    /\ eq_pc = "raised"
    /\ eq_last_error = MsgSyntax
    /\ eq_result = Raised(MsgSyntax)
    /\ eq_attempts = 2
    /\ eq_resumes + eq_probes = 1

\* C22: best-effort cleanup errors are swallowed.  An exception raised by
\* closing the cursor of an attempt never changes the outcome of
\* execute_query: after a failed attempt the query error is classified
\* whether or not the close returns, and the error a call raises is the
\* query error or SessionExpiredError, never the error of a close.
C22_CloseErrorsSwallowed ==
    /\ [][eq_pc = "except_close" => eq_pc' \in {"except_close", "except"}]_vars
    /\ [](eq_pc = "raised" =>
             eq_result \in {Raised(eq_last_error), Raised(SessionExpiredError)})

\* C25: touch() is called after every successful query.  The step in
\* which an attempt of execute_query succeeds sets the session's last_used
\* to the time of completion and adds one to its query_count.
C25_TouchAfterQuery ==
    [][(eq_pc = "attempt" /\ eq_pc' = "returned") =>
          /\ eq_session'.last_used = now
          /\ eq_session'.query_count = eq_session.query_count + 1
      ]_vars

\* C26: removal order.  In every removal path (remove_session, eviction
\* inside get_session, the sweep, shutdown) the connection of a session is
\* closed before its entry is discarded from the registry: in the step
\* that drops an id from the registry the session is already closed.
C26_CloseBeforeDiscard ==
    [][\A sid \in sm_sessions :
          sid \notin sm_sessions' => sm_sess[sid].conn = "closed"]_vars

\* C21: the core never swallows a query error.  Whenever a query run for
\* a metadata operation fails and the executor gives up on it, the
\* operation fails too: an operation that has returned normally has had
\* no query fail.
C21_QueryErrorsPropagate == ft_pc = "returned" => ~ft_gave_up

\* C33: a connection is never closed under a running query.  While an
\* execute_query started on a session that get_session returned is in
\* flight, no step of the manager (remove_session, the sweep, the eviction
\* in get_session, shutdown) closes the connection of that session.
C33_NoCloseUnderQuery ==
    [][\A sid \in rm_inflight :
          sm_sess[sid].conn # "closed" => sm_sess'[sid].conn # "closed"]_vars

\* C34: invalidation is not undone by in-flight fetches.  Once an
\* invalidation has returned while an operation that missed the cache held
\* data it had fetched before, that data is not readable from the cache
\* afterwards.
C34_InvalidationNotUndone ==
    ft_stale =>
        MetaGet(TierDict(FtTier(ft_call)), FtKey(ft_call), now, TierTtl(FtTier(ft_call)))
            = Miss

\* C38: a cached metadata fetch leaves the state unchanged on error.  An
\* operation called with a name that fails the identifier test raises
\* ValueError with no cache lookup and no query made; and the step in
\* which a query of the operation fails writes nothing to the metadata
\* cache.
C38_FetchErrorLeavesState ==
    /\ []((ft_call.op # "none" /\ ~FtValid(ft_call)) =>
             /\ ft_pc = "raised"
             /\ ft_result = FtError("ValueError")
             /\ ft_reads = 0
             /\ ft_queries = 0)
    /\ [][(ft_gave_up' /\ ~ft_gave_up) =>
             UNCHANGED <<mc_databases, mc_schemas, mc_tables, mc_columns>>]_vars

\* Messages that match the warehouse-suspended and the transient
\* connectivity patterns at once.
BothMessages ==
    {msg \in ErrorMessages : IsWarehouseSuspendedError(msg) /\ IsRetryableError(msg)}

\* C37: classification precedence.  An error that matches both kinds of
\* pattern takes the resume path only: with budget left the except clause
\* goes to the resume, never to the liveness probe; when the resume fails
\* or the session names no warehouse the query error itself is raised at
\* once, with no probe and no further attempt, and never as
\* SessionExpiredError.
C37_SuspendedBeforeTransient ==
    /\ BothMessages # {}
    /\ [][(/\ eq_pc = "except"
            /\ eq_last_error \in BothMessages
            /\ eq_attempt < MAX_RETRIES)
           => (/\ eq_pc' = "resume"
               /\ UNCHANGED <<eq_probes, eq_attempts>>)]_vars
    /\ [][(eq_pc = "resume" /\ eq_last_error \in BothMessages)
           => (/\ eq_probes' = eq_probes
               /\ eq_pc' \in {"attempt", "raised"}
               /\ (eq_warehouse = NoText =>
                      (~eq_resume_ok' /\ UNCHANGED eq_resumes))
               /\ (~eq_resume_ok' =>
                      /\ eq_pc' = "raised"
                      /\ eq_result' = Raised(eq_last_error)
                      /\ UNCHANGED <<eq_attempts, eq_attempt>>))]_vars
    /\ []((eq_pc = "raised" /\ eq_last_error \in BothMessages) =>
             eq_result # Raised(SessionExpiredError))

\* "Warehouse suspended: connection lost" at the first attempt, the resume
\* command failed and the query error was raised with no probe.
C37_Witness ==
    /\ eq_pc = "raised"
    /\ eq_last_error = MsgSuspendedConnection
    /\ eq_last_error \in BothMessages
    /\ eq_result = Raised(MsgSuspendedConnection)
    /\ eq_attempts = 1
    /\ eq_resumes = 1
    /\ ~eq_resume_ok
    /\ eq_probes = 0

\* C40: no cursor leaks from the auxiliary probes.  Every cursor opened by
\* _resume_warehouse and by _verify_connection is closed before the helper
\* returns, also when the resume or probe statement fails.
C40_NoHelperCursorLeak == eq_helper_open = 0

\* C13: every query attempt opens a cursor of its own, and close has been
\* called on it by the time the attempt ends: when the call has returned
\* or raised, and when the next attempt starts, no attempt's cursor is
\* open; while an error is being handled only the cursor of the failed
\* attempt can still be open.
C13_CursorsClosed ==
    /\ Len(eq_cursors) = eq_attempts
    /\ eq_pc \in {"idle", "attempt", "returned", "raised"} =>
          \A i \in 1..Len(eq_cursors) : eq_cursors[i] = "closed"
    /\ \A i \in 1..(Len(eq_cursors) - 1) : eq_cursors[i] = "closed"

\* A call that raised SessionExpiredError after two attempts.
C13_Witness ==
    /\ eq_pc = "raised"
    /\ eq_result = Raised(SessionExpiredError)
    /\ Len(eq_cursors) = 2
    /\ \A i \in 1..Len(eq_cursors) : eq_cursors[i] = "closed"

---------------------------------------------------------------------------
(* Claims about MetadataCache, checked under SpecMeta.                     *)

\* C24: metadata-cache reads never modify the cache.  A get_X leaves the
\* four dictionaries and the counts of get_stats unchanged; on an entry
\* whose age strictly exceeds the TTL of its tier it returns a miss and the
\* entry stays stored, on a younger entry it returns the data.  A stored
\* entry changes only in a set of the same key, and leaves only in
\* invalidate_all or invalidate_database.
C24_ReadsLeaveCache ==
    /\ [][mc_ret'.op = "get" =>
            /\ UNCHANGED <<mc_databases, mc_schemas, mc_tables, mc_columns>>
            /\ McGetStats' = McGetStats
            /\ LET dict == TierDict(mc_ret'.tier)
                   key == mc_ret'.key
               IN  /\ key \notin DOMAIN dict => mc_ret'.result = Miss
                   /\ key \in DOMAIN dict =>
                         IF now - dict[key].cached_at > TierTtl(mc_ret'.tier)
                         THEN mc_ret'.result = Miss
                         ELSE mc_ret'.result = dict[key].data
         ]_vars
    /\ [][\A tier \in Tiers : \A key \in DOMAIN TierDict(tier) :
            /\ key \notin DOMAIN TierDict(tier)' =>
                  mc_ret'.op \in {"invalidate_all", "invalidate_database"}
            /\ (key \in DOMAIN TierDict(tier)' /\ TierDict(tier)'[key] # TierDict(tier)[key]) =>
                  mc_ret' = McCall("set", tier, key, TierDict(tier)'[key].data)
         ]_vars

\* A get has just returned a miss for a key that is stored: the entry is
\* older than the TTL of its tier and is still there.
C24_Witness ==
    /\ mc_ret.op = "get"
    /\ mc_ret.result = Miss
    /\ mc_ret.key \in DOMAIN TierDict(mc_ret.tier)
    /\ now - TierDict(mc_ret.tier)[mc_ret.key].cached_at > TierTtl(mc_ret.tier)

\* A thread is part-way through an invalidation: the schemas entries it
\* drops are gone, its tables or columns entries are not yet.
Torn(u) == ml_pc[u] \in {"db_tables", "db_columns", "all_tables", "all_columns"}

\* C27: metadata invalidation is atomic with respect to concurrent readers
\* and writers.  A thread part-way through invalidate_database or
\* invalidate_all holds the lock, no get_X or set_X runs while an
\* invalidation is under way, and no get returns as a hit a tables or
\* columns entry that an invalidation under way has still to drop after it
\* has dropped the schemas entries.
C27_InvalidationAtomic ==
    /\ [](\A u \in MetaThreads : ml_pc[u] # "idle" => ml_lock = u)
    /\ [][mc_ret'.op \in {"get", "set"} =>
            \A u \in MetaThreads : ml_pc[u] = "idle"]_vars
    /\ [][(/\ mc_ret'.op = "get"
           /\ mc_ret'.tier \in {"tables", "columns"}
           /\ mc_ret'.result # Miss)
          => ~\E u \in MetaThreads :
                /\ Torn(u)
                /\ StartsWith(mc_ret'.key, ml_local[u].prefix)
                /\ <<mc_ret'.tier, mc_ret'.key>> \in ml_local[u].before
         ]_vars

\* An invalidate_database is part-way: a schemas entry of the database
\* that was stored when it started is gone, a tables entry of the database
\* is still stored and unexpired, and another thread is idle.
C27_Witness ==
    \E u \in MetaThreads :
        /\ ml_pc[u] = "db_tables"
        /\ \E e \in ml_local[u].before :
              /\ e[1] = "schemas"
              /\ StartsWith(e[2], ml_local[u].prefix)
              /\ e[2] \notin DOMAIN mc_schemas
        /\ \E e \in ml_local[u].before :
              /\ e[1] = "tables"
              /\ StartsWith(e[2], ml_local[u].prefix)
              /\ MetaGet(mc_tables, e[2], now, TtlTables) # Miss
        /\ \E t \in MetaThreads : t # u /\ ml_pc[t] = "idle"

\* A key of the schemas, tables or columns tier belongs to a database when
\* it is account/database or goes on with a slash after it.
BelongsTo(key, account, database) ==
    \/ key = SchemasKey(account, database)
    \/ StartsWith(key, SchemasKey(account, database) \o Slash)

\* C31: invalidate_database(account, database) affects only that
\* database.  Every schemas, tables and columns entry that belongs to
\* another database of the account, one whose name starts with database
\* included, or to another account is left as it was.
C31_InvalidateOnlyThatDatabase ==
    [][mc_ret'.op = "invalidate_database" =>
          \A tier \in {"schemas", "tables", "columns"} :
              \A key \in DOMAIN TierDict(tier) :
                  ~BelongsTo(key, mc_ret'.account, mc_ret'.database) =>
                      /\ key \in DOMAIN TierDict(tier)'
                      /\ TierDict(tier)'[key] = TierDict(tier)[key]
      ]_vars

\* C14: invalidate_database(account, db) removes every schemas, tables and
\* columns entry cached under that account and database (keys account/db,
\* account/db/schema, account/db/schema/table), so that a get for any of
\* them misses afterwards, and leaves the database lists as they were.
C14_InvalidateDatabase ==
    [][mc_ret'.op = "invalidate_database" =>
          LET a == mc_ret'.account
              d == mc_ret'.database
          IN  /\ SchemasKey(a, d) \notin DOMAIN mc_schemas'
              /\ MetaGet(mc_schemas', SchemasKey(a, d), now', TtlSchemas) = Miss
              /\ \A sc \in Schemas :
                    /\ TablesKey(a, d, sc) \notin DOMAIN mc_tables'
                    /\ MetaGet(mc_tables', TablesKey(a, d, sc), now', TtlTables) = Miss
                    /\ \A tb \in Tables :
                          /\ ColumnsKey(a, d, sc, tb) \notin DOMAIN mc_columns'
                          /\ MetaGet(mc_columns', ColumnsKey(a, d, sc, tb), now',
                                     TtlColumns) = Miss
              /\ mc_databases' = mc_databases
      ]_vars

\* invalidate_database was called after a database list and an entry of
\* another tier had been cached for its account: only the database list
\* is left, and it is still readable.
C14_Witness ==
    /\ mc_ret.op = "invalidate_database"
    /\ mc_ret.removed = 1
    /\ McGetStats = [databases |-> 1, schemas |-> 0, tables |-> 0, columns |-> 0]
    /\ MetaGet(mc_databases, mc_ret.account, now, TtlDatabases) # Miss

---------------------------------------------------------------------------
(* The claim about identifier validation, checked under SpecIdent.         *)

\* A non-empty name whose first character is a letter or an underscore and
\* whose other characters are letters, digits, underscores or dollar signs.
WellFormedIdentifier(name) ==
    /\ Len(name) >= 1
    /\ name[1] \in HeadChars
    /\ \A i \in 2..Len(name) : name[i] \in BodyChars

\* C20: validation returns the upper-cased name if and only if the name is
\* a well-formed identifier and fails for every other name, in particular
\* for every name with a character outside [A-Za-z0-9_$]; it changes
\* nothing but its result.
C20_IdentifierValidator ==
    id_ret.op # "none" =>
        /\ id_ret.ok <=> WellFormedIdentifier(id_name)
        /\ id_ret.ok => id_ret.value = Upper(id_name)

---------------------------------------------------------------------------
(* Claims about SessionManager under concurrent callers, checked under     *)
(* SpecLock.                                                               *)

\* The steps of get_session and of the sweep that run inside "with
\* self._lock".
InLookup(t) == lk_pc[t] \in {"get_lookup", "get_probe"}
InSweep == lk_pc[Sweeper] \in {"scan", "evict"}

\* C32: registry invariant.  Whenever the manager lock is free, no
\* registry entry refers to a session the manager has closed; a session
\* get_session returns is registered and not closed; and a closed session
\* stays closed and out of the registry, so no later get_session or
\* get_stats finds it.
C32_RegistryInvariant ==
    /\ [](lk_lock = "free" =>
             \A sid \in lk_sessions : lk_sess[sid].conn # "closed")
    /\ [][(lk_ret'.op = "get_session" /\ lk_ret'.result # None) =>
             /\ lk_ret'.result \in lk_sessions'
             /\ lk_sess'[lk_ret'.result].conn # "closed"
         ]_vars
    /\ [][\A sid \in DOMAIN lk_sess :
             lk_sess[sid].conn = "closed" =>
                 /\ sid \notin lk_sessions'
                 /\ lk_sess'[sid].conn = "closed"
         ]_vars

\* get_session has just returned None for a session the manager closed
\* earlier, while another session is still registered.
C32_Witness ==
    /\ lk_lock = "free"
    /\ lk_ret.op = "get_session"
    /\ lk_ret.result = None
    /\ lk_ret.closed = {}
    /\ lk_ret.sid \in DOMAIN lk_sess
    /\ lk_sess[lk_ret.sid].conn = "closed"
    /\ lk_sessions # {}

\* C15: sweep and lookup are mutually exclusive.  A thread inside
\* get_session holds the lock and the sweep is not inside its scan, and
\* the other way round; and a session that get_session touches and
\* returns is registered, open, and neither selected nor closed by a sweep
\* that is under way.
C15_SweepLookupExclusive ==
    /\ [](\A t \in RequestThreads :
            /\ InLookup(t) => lk_lock = t /\ ~InSweep
            /\ InSweep => lk_lock = Sweeper /\ ~InLookup(t))
    /\ [][lk_ret'.op = "get_session" /\ lk_ret'.result # None =>
            /\ ~InSweep
            /\ lk_ret'.result \in lk_sessions'
            /\ lk_sess'[lk_ret'.result].conn = "live"
            /\ lk_sess'[lk_ret'.result].last_used = now
            /\ lk_ret'.result \notin lk_local[Sweeper].todo
            /\ lk_ret'.result \notin lk_local[Sweeper].closed
         ]_vars

\* get_session returned a session while the cleanup thread, its sleep
\* over, was waiting for the lock with an expired session to collect.
C15_Witness ==
    /\ lk_ret.op = "get_session"
    /\ lk_ret.result # None
    /\ lk_pc[Sweeper] = "sleep"
    /\ ExpiredIds(lk_sess, lk_sessions, now) # {}

\* C16: no network I/O while the manager's lock is held: a thread that
\* holds the lock is not running a liveness probe.
C16_NoProbeUnderLock ==
    \A t \in Threads : lk_lock = t => lk_pc[t] # "get_probe"

\* A get_session call for the session is between its lock acquire and its
\* return.
LookupInFlight(sid) ==
    \E t \in RequestThreads :
        lk_pc[t] \in {"get_lookup", "get_probe"} /\ lk_local[t].sid = sid

\* C35: idle sessions are evicted without traffic.  While the manager is
\* running, a registered session whose idle time has exceeded max_idle,
\* with no get_session call in flight for it, is eventually out of the
\* registry and closed, whether or not get_session is called for it again.
C35_IdleEventuallyEvicted ==
    \A sid \in SessionIds :
        (/\ lk_running
         /\ sid \in lk_sessions
         /\ IsExpired(lk_sess[sid].last_used, now, MaxIdle)
         /\ ~LookupInFlight(sid))
        ~> (\/ ~lk_running
            \/ (/\ sid \in DOMAIN lk_sess
                /\ sid \notin lk_sessions
                /\ lk_sess[sid].conn = "closed"))

\* The sweep returned while the manager is running and has closed a
\* session that no get_session was called for since it went idle.
C35_Witness ==
    /\ lk_running
    /\ lk_ret.op = "sweep"
    /\ lk_ret.thread = Sweeper
    /\ lk_ret.closed # {}
    /\ \A sid \in lk_ret.closed :
          /\ sid \notin lk_sessions
          /\ lk_sess[sid].conn = "closed"
          /\ IsExpired(lk_sess[sid].last_used, now, MaxIdle)

\* shutdown() has been called and has returned.
ShutdownReturned ==
    /\ ~lk_running
    /\ \A t \in RequestThreads : lk_pc[t] \notin {"shutdown_lock", "shutdown_remove"}

\* C36: the background sweep stops at shutdown.  The cleanup loop does not
\* exit while the manager is running, and once shutdown() has returned the
\* sweeper is never inside _cleanup_expired again.
C36_SweepStopsAtShutdown ==
    /\ lk_pc[Sweeper] = "done" => ~lk_running
    /\ ShutdownReturned => lk_pc[Sweeper] \notin {"scan", "evict"}

\* The calls of is_allowed(ip) that returned allowed at a time in the
\* window of WindowSeconds clock units that starts at w.
AllowedInWindow(ip, w) ==
    {i \in DOMAIN rl_log :
        rl_log[i].ip = ip /\ rl_log[i].at \in w..(w + WindowSeconds - 1)}

\* C39: connect rate limit.  For every client IP and every window of
\* window_seconds at most max_attempts calls of is_allowed(ip) return
\* allowed, under any interleaving of the callers; a denied call is not
\* recorded and returns a retry-after of at least 1; a call for one IP
\* leaves the record of every other IP alone.
C39_ConnectRateLimit ==
    /\ [](\A ip \in ClientIps, w \in 0..MaxTime :
             Cardinality(AllowedInWindow(ip, w)) <= MaxAttempts)
    /\ []((rl_ret.op = "is_allowed" /\ ~rl_ret.allowed) =>
             /\ rl_ret.retry_after >= 1
             /\ rl_attempts[rl_ret.ip] = Recent(rl_ret.before, rl_ret.now))
    /\ [][\A ip \in ClientIps :
             ip # rl_ret'.ip => rl_attempts'[ip] = rl_attempts[ip]]_vars

\* C18: when shutdown returns, every session that was registered when it
\* was called has been closed, and the registry is empty.
C18_ShutdownClosesAll ==
    [][lk_ret'.op = "shutdown" =>
          /\ lk_sessions' = {}
          /\ ~lk_running'
          /\ \A sid \in lk_ret'.atcall : lk_sess'[sid].conn = "closed"
      ]_vars

\* shutdown returned; two sessions were registered when it was called, and
\* another thread removed one of them before shutdown took the lock.
C18_Witness ==
    /\ lk_ret.op = "shutdown"
    /\ Cardinality(lk_ret.atcall) = 2
    /\ Cardinality(lk_ret.closed) = 1

===========================================================================
